---------------------------- MODULE Spec2Model ----------------------------
(***************************************************************************)
(* Model of the investor-data tool server (src/server.py): ten tool        *)
(* handlers over one remote table, reached through                         *)
(* fetch_data_from_supabase.                                               *)
(*                                                                         *)
(* Strings are sequences of code points, so that len(), slicing, lower()   *)
(* and Python's lexicographic < and > are computed as Python computes      *)
(* them.  A value is a record tagged with its kind: a str, None ("null"),  *)
(* an int, or a key that is absent from a row.                             *)
(***************************************************************************)
EXTENDS Integers, Sequences, FiniteSets, TLC

(***************************************************************************)
(* Bounds of the model.                                                    *)
(***************************************************************************)
\* Longest table the remote holds.
MaxRows == 12
\* Number of different first rows of the long tables.
MaxStart == 2

(***************************************************************************)
(* Program constants.                                                      *)
(***************************************************************************)
\* data[:10]: records shown by the record formatter.
ShowCap == 10
\* len(thesis) > 100 / thesis[:100]
ThesisCap == 100

(***************************************************************************)
(* Values.                                                                 *)
(***************************************************************************)
Null == [k |-> "null"]
Absent == [k |-> "absent"]
Str(s) == [k |-> "str", s |-> s]
Num(n) == [k |-> "int", n |-> n]

\* Python truthiness: None, "" and 0 are falsy.
Truthy(v) ==
    CASE v.k = "str" -> v.s # <<>>
      [] v.k = "int" -> v.n # 0
      [] OTHER -> FALSE

Min(a, b) == IF a < b THEN a ELSE b

\* seq[:n] for n >= 0
Take(seq, n) == SubSeq(seq, 1, Min(n, Len(seq)))

(***************************************************************************)
(* String operations, as Python's str computes them.                       *)
(***************************************************************************)
\* str.lower() on ASCII letters
Lower(s) == [i \in 1..Len(s) |-> IF s[i] \in 65..90 THEN s[i] + 32 ELSE s[i]]

\* A comparison that orders amounts by their number of digits first, as a
\* numeric comparison of "9M" and "10M" would.
StrLessShorterFirst(a, b) ==
    \/ Len(a) < Len(b)
    \/ /\ Len(a) = Len(b)
       /\ \E d \in 1..Len(a) : a[d] < b[d] /\ \A j \in 1..(d - 1) : a[j] = b[j]

\* a < b on str: code point order at the first difference, else the shorter
StrLess(a, b) ==
    LET n == Min(Len(a), Len(b))
        diff == {i \in 1..n : a[i] # b[i]}
    IN  IF diff = {}
        THEN Len(a) < Len(b)
        ELSE LET d == CHOOSE i \in diff : \A j \in diff : i <= j
             IN  a[d] < b[d]

\* a > b on str
StrGreater(a, b) == StrLess(b, a)

\* hay.startswith(needle) in place of `needle in hay`
StartsWith(hay, needle) ==
    Len(needle) <= Len(hay) /\ SubSeq(hay, 1, Len(needle)) = needle

\* needle in hay
Contains(hay, needle) ==
    \E i \in 0..(Len(hay) - Len(needle)) :
        SubSeq(hay, i + 1, i + Len(needle)) = needle

IsSpace(c) == c \in {32, 9, 10, 11, 12, 13}

\* str.strip()
RECURSIVE LStrip(_)
LStrip(s) == IF s # <<>> /\ IsSpace(Head(s)) THEN LStrip(Tail(s)) ELSE s
RECURSIVE RStrip(_)
RStrip(s) ==
    IF s # <<>> /\ IsSpace(s[Len(s)]) THEN RStrip(SubSeq(s, 1, Len(s) - 1)) ELSE s
Strip(s) == RStrip(LStrip(s))

\* str.split(sep) for a one-character sep: always at least one piece
RECURSIVE SplitOn(_, _)
SplitOn(s, sep) ==
    LET hits == {i \in 1..Len(s) : s[i] = sep}
    IN  IF hits = {}
        THEN <<s>>
        ELSE LET h == CHOOSE i \in hits : \A j \in hits : i <= j
             IN  <<SubSeq(s, 1, h - 1)>> \o SplitOn(SubSeq(s, h + 1, Len(s)), sep)

\* str.split(): pieces between runs of whitespace, no empty piece
RECURSIVE SplitWS(_)
SplitWS(s) ==
    LET t == LStrip(s)
        sp == {i \in 1..Len(t) : IsSpace(t[i])}
    IN  IF t = <<>>
        THEN <<>>
        ELSE IF sp = {}
        THEN <<t>>
        ELSE LET h == CHOOSE i \in sp : \A j \in sp : i <= j
             IN  <<SubSeq(t, 1, h - 1)>> \o SplitWS(SubSeq(t, h, Len(t)))

(***************************************************************************)
(* String literals of the program and of the data.                         *)
(***************************************************************************)
s_NA == <<78, 47, 65>>  \* "N/A"
s_None == <<78, 111, 110, 101>>  \* "None"
s_Dots == <<46, 46, 46>>  \* "..."
s_Acme == <<65, 99, 109, 101>>  \* "Acme"
s_Beta == <<66, 101, 116, 97>>  \* "Beta"
s_Core == <<67, 111, 114, 101>>  \* "Core"
s_Delta == <<68, 101, 108, 116, 97>>  \* "Delta"
s_Echo == <<69, 99, 104, 111>>  \* "Echo"
s_Fox == <<70, 111, 120>>  \* "Fox"
s_Gamma == <<71, 97, 109, 109, 97>>  \* "Gamma"
s_Hotel == <<72, 111, 116, 101, 108>>  \* "Hotel"
s_Zed == <<90, 101, 100>>  \* "Zed"
s_web == <<97, 46, 118, 99>>  \* "a.vc"
s_San == <<83, 97, 110>>  \* "San"
s_SanFrancisco == <<83, 97, 110, 32, 70, 114, 97, 110, 99, 105, 115, 99, 111>>  \* "San Francisco"
s_SanJose == <<83, 97, 110, 32, 74, 111, 115, 101>>  \* "San Jose"
s_Berlin == <<66, 101, 114, 108, 105, 110>>  \* "Berlin"
s_USA == <<85, 83, 65>>  \* "USA"
s_usa == <<117, 115, 97>>  \* "usa"
s_UK == <<85, 75>>  \* "UK"
s_USA_UK == <<85, 83, 65, 44, 32, 85, 75>>  \* "USA, UK"
s_USA_USA == <<85, 83, 65, 44, 85, 83, 65>>  \* "USA,USA"
s_spUSA == <<32, 85, 83, 65>>  \* " USA"
s_Seed == <<83, 101, 101, 100>>  \* "Seed"
s_SeriesA == <<83, 101, 114, 105, 101, 115, 32, 65>>  \* "Series A"
s_VC == <<86, 67>>  \* "VC"
s_vc == <<118, 99>>  \* "vc"
s_Angel == <<65, 110, 103, 101, 108>>  \* "Angel"
s_AngelNetwork == <<65, 110, 103, 101, 108, 32, 110, 101, 116, 119, 111, 114, 107>>  \* "Angel network"
s_PrivateEquity == <<80, 114, 105, 118, 97, 116, 101, 32, 69, 113, 117, 105, 116, 121>>  \* "Private Equity"
s_GreatBritain == <<71, 114, 101, 97, 116, 32, 66, 82, 73, 84, 65, 73, 78>>  \* "Great BRITAIN"
s_PE == <<80, 69>>  \* "PE"
s_9M == <<57, 77>>  \* "9M"
s_10M == <<49, 48, 77>>  \* "10M"
s_20M == <<50, 48, 77>>  \* "20M"
s_50M == <<53, 48, 77>>  \* "50M"
s_100k == <<49, 48, 48, 107>>  \* "100k"
s_1M == <<49, 77>>  \* "1M"
s_1m == <<49, 109>>  \* "1m"
s_5M == <<53, 77>>  \* "5M"
s_AIsoftware == <<65, 73, 32, 115, 111, 102, 116, 119, 97, 114, 101>>  \* "AI software"
s_fintech == <<102, 105, 110, 116, 101, 99, 104>>  \* "fintech"
\* "AI, ML, SaaS, B2B, B2C, fintech, software, mobile, crypto, edtech and Security platforms"
s_RichThesis ==
    <<65, 73, 44, 32, 77, 76, 44, 32, 83, 97, 97, 83, 44, 32, 66, 50, 66, 44, 32, 66, 50, 67, 44, 32, 102, 105, 110, 116, 101, 99, 104, 44, 32, 115, 111, 102, 116, 119, 97, 114, 101, 44, 32, 109, 111, 98, 105, 108, 101, 44, 32, 99, 114, 121, 112, 116, 111, 44, 32, 101, 100, 116, 101, 99, 104, 32, 97, 110, 100, 32, 83, 101, 99, 117, 114, 105, 116, 121, 32, 112, 108, 97, 116, 102, 111, 114, 109, 115>>
s_MLmobile == <<77, 76, 32, 102, 111, 114, 32, 109, 111, 98, 105, 108, 101>>  \* "ML for mobile"
\* a thesis of ThesisCap + 1 characters: "fintech" then "x" repeated
s_LongThesis == [i \in 1..(ThesisCap + 1) |-> IF i <= 7 THEN s_fintech[i] ELSE 120]
\* a thesis of exactly ThesisCap characters
s_FullThesis == [i \in 1..ThesisCap |-> 121]
\* a thesis of 2 * ThesisCap + 1 characters
s_DoubleThesis == s_LongThesis \o s_FullThesis

(***************************************************************************)
(* Rows of the remote table "dec-2024".                                    *)
(***************************************************************************)
Columns ==
    {"Investor name", "Website", "Global HQ", "Countries of investment",
     "Stage of investment", "Investment thesis", "Investor type",
     "First cheque minimum", "First cheque maximum"}

Row(name, website, hq, countries, stage, thesis, type, cmin, cmax) ==
    [c \in Columns |->
        CASE c = "Investor name" -> name
          [] c = "Website" -> website
          [] c = "Global HQ" -> hq
          [] c = "Countries of investment" -> countries
          [] c = "Stage of investment" -> stage
          [] c = "Investment thesis" -> thesis
          [] c = "Investor type" -> type
          [] c = "First cheque minimum" -> cmin
          [] c = "First cheque maximum" -> cmax]

\* The rows the tables are built from: complete rows, rows with null
\* columns, a row whose columns the remote omits, empty strings, a thesis
\* longer than ThesisCap, comma-separated and repeated countries.
RowPool ==
    << Row(Str(s_Acme), Str(s_web), Str(s_SanFrancisco), Str(s_USA), Str(s_Seed),
           Str(s_AIsoftware), Str(s_VC), Str(s_9M), Str(s_20M)),
       Row(Str(s_Beta), Null, Str(s_SanJose), Str(s_USA_UK), Str(s_Seed),
           Str(s_LongThesis), Str(s_VC), Str(s_10M), Str(s_50M)),
       Row(Str(s_Core), Str(s_web), Str(s_Berlin), Str(s_UK), Str(s_SeriesA),
           Null, Str(s_AngelNetwork), Str(s_100k), Str(s_1M)),
       Row(Str(s_Delta), Str(s_web), Str(<<>>), Str(s_USA_USA), Str(<<>>),
           Str(<<>>), Str(s_PE), Str(<<>>), Str(s_5M)),
       Row(Str(s_Acme), Null, Null, Null, Null, Str(s_FullThesis), Null, Null, Null),
       Row(Str(s_Echo), Absent, Absent, Str(s_spUSA), Absent, Absent, Absent,
           Str(s_10M), Absent) >>

\* Investors that resemble the first row of the pool, "Acme": two that
\* share its type, stage and countries but no word of its headquarters
\* (one of them with a null headquarters), one that shares type, stage and
\* a word of the headquarters, one that shares the type only and whose
\* thesis is null.
Lookalikes ==
    << Row(Str(s_Gamma), Str(s_web), Str(s_Berlin), Str(s_USA), Str(s_Seed),
           Str(s_DoubleThesis), Str(s_VC), Str(s_1M), Str(s_5M)),
       Row(Str(s_Fox), Null, Null, Str(s_USA), Str(s_Seed),
           Str(s_fintech), Str(s_VC), Str(s_9M), Null),
       RowPool[2],
       Row(Str(s_Hotel), Str(s_web), Str(s_Berlin), Str(s_UK), Str(s_SeriesA),
           Null, Str(s_VC), Str(s_100k), Str(s_1M)) >>

\* "Acme" followed by n lookalikes: from the first `start` the three whose
\* thesis is a string in cyclic order, from the other starts all four in
\* cyclic order from lookalike `start`.
Crowd(n, start) ==
    <<RowPool[1]>>
    \o [i \in 1..n |->
           IF start = 1
           THEN Lookalikes[((i - 1) % (Len(Lookalikes) - 1)) + 1]
           ELSE Lookalikes[((start + i - 2) % Len(Lookalikes)) + 1]]

\* Investors for the thesis analysis: a thesis that holds twelve of the
\* keywords, a thesis that is the placeholder "N/A", a thesis that holds two
\* keywords.
Themed ==
    << Row(Str(s_Gamma), Str(s_web), Str(s_Berlin), Str(s_UK), Str(s_SeriesA),
           Str(s_RichThesis), Str(s_PE), Str(s_1M), Str(s_5M)),
       Row(Str(s_Hotel), Str(s_web), Str(s_Berlin), Str(s_UK), Str(s_SeriesA),
           Str(s_NA), Str(s_PE), Str(s_1M), Str(s_5M)),
       Row(Str(s_Fox), Str(s_web), Str(s_SanJose), Str(s_USA), Str(s_Seed),
           Str(s_MLmobile), Str(s_VC), Str(s_1M), Str(s_5M)) >>

\* The tables of one or two themed rows, alone or after a row of the pool.
ThemedTables ==
    {<<Themed[i]>> : i \in 1..Len(Themed)}
    \cup {<<Themed[i], Themed[j]>> : i \in 1..Len(Themed), j \in 1..Len(Themed)}
    \cup {<<RowPool[k], Themed[i], Themed[j]>> :
             k \in 1..2, i \in 1..Len(Themed), j \in 1..Len(Themed)}

\* The long tables: n rows of the pool in cyclic order from row `start`.
Cyclic(n, start) ==
    [i \in 1..n |-> RowPool[((start + i - 2) % Len(RowPool)) + 1]]

\* Every table of at most two rows, long tables up to MaxRows rows, "Acme"
\* among up to MaxRows lookalikes, and the themed tables.
Tables ==
    {<<>>}
    \cup {<<RowPool[i]>> : i \in 1..Len(RowPool)}
    \cup {<<RowPool[i], RowPool[j]>> : i \in 1..Len(RowPool), j \in 1..Len(RowPool)}
    \cup {Cyclic(n, start) : n \in 3..MaxRows, start \in 1..MaxStart}
    \cup {Crowd(n, start) : n \in 2..MaxRows, start \in 1..MaxStart}
    \cup ThemedTables

(***************************************************************************)
(* The remote table store behind the Supabase client.                      *)
(***************************************************************************)
\* No filter entry: the empty dict.
NoFilters == [c \in {} |-> <<>>]

\* .eq(column, value) for every entry of the filter map
Matches(row, filters) ==
    \A c \in DOMAIN filters : row[c].k = "str" /\ row[c].s = filters[c]

\* .select(columns): the row with the columns that were not asked for left out
Project(row, columns) == [c \in Columns |-> IF c \in columns THEN row[c] ELSE Absent]

\* query.execute(): what the store answers to a request, and the table it
\* leaves.  A select leaves the table as it is; a delete removes the rows
\* it matches.
Execute(tbl, req) ==
    LET hit == SelectSeq(tbl, LAMBDA r : Matches(r, req.filters))
        rows == [i \in 1..Len(hit) |-> Project(hit[i], req.columns)]
        cut == IF req.limit = <<>> THEN rows ELSE Take(rows, req.limit[1])
    IN  IF req.verb = "select"
        THEN [table |-> tbl, data |-> cut]
        ELSE [table |-> SelectSeq(tbl, LAMBDA r : ~Matches(r, req.filters)),
              data |-> cut]

(***************************************************************************)
(* fetch_data_from_supabase                                                *)
(***************************************************************************)
CredentialsMsg ==
    "Supabase credentials not found. Please set SUPABASE_URL and SUPABASE_KEY environment variables or add them to your .env file."
FetchErrorHead == "Error fetching data from Supabase: "

\* The faults of one call of the client library: none, create_client
\* raising, query.execute() raising.
Faults == {"none", "create_client", "execute"}

\* A query that deletes the rows it matches instead of selecting them.
BuildDeleteQuery(fargs) ==
    [verb |-> "delete",
     table_name |-> "dec-2024",
     columns |-> fargs.select_columns,
     filters |-> fargs.filters,
     limit |-> IF Truthy(fargs.limit) THEN <<fargs.limit.n>> ELSE <<>>]

\* The query the function builds: .select(columns), .eq() per filter when
\* `filters` is truthy, .limit() when `limit` is truthy.
BuildQuery(fargs) ==
    [verb |-> "select",
     table_name |-> "dec-2024",
     columns |-> fargs.select_columns,
     filters |-> fargs.filters,
     limit |-> IF Truthy(fargs.limit) THEN <<fargs.limit.n>> ELSE <<>>]

\* The function with the credential check inside its try block: the
\* configuration error comes out wrapped like any other.
FetchChecksInsideTry(cr, tbl, fargs, fault) ==
    IF ~cr.url \/ ~cr.key
    THEN [kind |-> "raise",
          exc |-> [type |-> "Exception", msg |-> <<FetchErrorHead, CredentialsMsg>>],
          client |-> FALSE, sent |-> <<>>, table |-> tbl]
    ELSE IF fault # "none"
    THEN [kind |-> "raise",
          exc |-> [type |-> "Exception", msg |-> <<FetchErrorHead, "connection failed">>],
          client |-> TRUE, sent |-> <<>>, table |-> tbl]
    ELSE LET ans == Execute(tbl, BuildQuery(fargs))
         IN  [kind |-> "data", data |-> ans.data,
              client |-> TRUE, sent |-> <<BuildQuery(fargs)>>, table |-> ans.table]

\* One call of the function: the outcome handed to the caller (the records,
\* or the exception raised), whether a client was created, the request sent
\* to the store, and the table afterwards.
Fetch(cr, tbl, fargs, fault) ==
    IF ~cr.url \/ ~cr.key
    THEN [kind |-> "raise",
          exc |-> [type |-> "ValueError", msg |-> <<CredentialsMsg>>],
          client |-> FALSE, sent |-> <<>>, table |-> tbl]
    ELSE IF fault = "create_client"
    THEN [kind |-> "raise",
          exc |-> [type |-> "Exception", msg |-> <<FetchErrorHead, "Invalid URL">>],
          client |-> FALSE, sent |-> <<>>, table |-> tbl]
    ELSE IF fault = "execute"
    THEN [kind |-> "raise",
          exc |-> [type |-> "Exception", msg |-> <<FetchErrorHead, "connection failed">>],
          client |-> TRUE, sent |-> <<>>, table |-> tbl]
    ELSE LET req == BuildQuery(fargs)
             ans == Execute(tbl, req)
         IN  [kind |-> "data", data |-> ans.data,
              client |-> TRUE, sent |-> <<req>>, table |-> ans.table]

(***************************************************************************)
(* What a handler's body ends with: a returned text or a raised exception, *)
(* and the number of divisions it evaluated on the way.                    *)
(***************************************************************************)
Return(text, divs) == [kind |-> "return", text |-> text, divs |-> divs]
Raise(exc) == [kind |-> "raise", exc |-> exc, divs |-> 0]

\* A text without placeholders.
Literal(s) == [t |-> "literal", parts |-> <<s>>]

NoInvestorData == Literal("No investor data found.")

\* len(None)
TypeErrorLen ==
    [type |-> "TypeError", msg |-> <<"object of type 'NoneType' has no len()">>]

\* The fixed phrase of each handler's `except Exception as e` clause.
ErrorPrefix(op) ==
    CASE op = "get_investor_data" -> "An error occurred while fetching investor data: "
      [] op = "search_investors_by_criteria" -> "An error occurred while searching investors: "
      [] op = "get_available_investor_types" -> "An error occurred while fetching investor types: "
      [] op = "get_available_countries" -> "An error occurred while fetching countries: "
      [] op = "analyze_investment_stages" -> "An error occurred while analyzing investment stages: "
      [] op = "find_investors_by_cheque_size" -> "An error occurred while searching by cheque size: "
      [] op = "analyze_investment_thesis" -> "An error occurred while analyzing investment thesis: "
      [] op = "get_investor_statistics" -> "An error occurred while getting statistics: "
      [] op = "find_similar_investors" -> "An error occurred while finding similar investors: "

\* f"<fixed phrase>{e}"
ErrorText(op, exc) == [t |-> "error", parts |-> <<ErrorPrefix(op)>> \o exc.msg]

\* A handler that catches the errors of the fetch only.
CatchesFetchErrorsOnly(exc) == exc.type \in {"ValueError", "Exception"}

\* Which exceptions `except Exception` catches: every one the body raises.
Catches(exc) == exc.type \in {"ValueError", "Exception", "TypeError"}

\* try: <body> except Exception as e: return f"...{e}"
TryExcept(op, outcome) ==
    IF outcome.kind = "raise" /\ Catches(outcome.exc)
    THEN Return(ErrorText(op, outcome.exc), outcome.divs)
    ELSE outcome

(***************************************************************************)
(* The record formatter (the same loop in four handlers).                  *)
(***************************************************************************)
\* record.get(column): None for a key that is absent
Get(r, c) == IF r[c].k = "absent" THEN Null ELSE r[c]

\* record.get(column, default): the default only for a key that is absent
GetDefault(r, c, d) == IF r[c].k = "absent" THEN Str(d) ELSE r[c]

\* f"{value}"
Render(v) == IF v.k = "str" THEN v.s ELSE s_None

\* investor.get("Investment thesis", "N/A")
ThesisOf(investor) == GetDefault(investor, "Investment thesis", s_NA)

\* A truncation that also cuts a thesis of exactly 100 characters.
TruncateAtCap(thesis) ==
    IF Len(thesis) >= ThesisCap THEN Take(thesis, ThesisCap) \o s_Dots ELSE thesis

\* A truncation that appends the dots to a long thesis without cutting it.
TruncateUncut(thesis) ==
    IF Len(thesis) > ThesisCap THEN thesis \o s_Dots ELSE thesis

\* if len(thesis) > 100: thesis = thesis[:100] + "..."
Truncate(thesis) ==
    IF Len(thesis) > ThesisCap THEN Take(thesis, ThesisCap) \o s_Dots ELSE thesis

\* The lines one record contributes.
Block(i, investor) ==
    [ordinal |-> i,
     name |-> Render(GetDefault(investor, "Investor name", s_NA)),
     website |-> Render(GetDefault(investor, "Website", s_NA)),
     hq |-> Render(GetDefault(investor, "Global HQ", s_NA)),
     countries |-> Render(GetDefault(investor, "Countries of investment", s_NA)),
     stage |-> Render(GetDefault(investor, "Stage of investment", s_NA)),
     type |-> Render(GetDefault(investor, "Investor type", s_NA)),
     cheque_min |-> Render(GetDefault(investor, "First cheque minimum", s_NA)),
     cheque_max |-> Render(GetDefault(investor, "First cheque maximum", s_NA)),
     thesis |-> Truncate(ThesisOf(investor).s)]

\* for i, investor in enumerate(data[:10], 1): ...; the "... and N more" tail
\* when len(data) > 10.  len(thesis) raises TypeError on the first shown
\* record whose thesis is None.
FormatRecords(header, data) ==
    LET shown == Take(data, ShowCap)
    IN  IF \E i \in 1..Len(shown) : ThesisOf(shown[i]).k # "str"
        THEN Raise(TypeErrorLen)
        ELSE Return([t |-> "records",
                     header |-> header,
                     blocks |-> [i \in 1..Len(shown) |-> Block(i, shown[i])],
                     more |-> IF Len(data) > ShowCap
                              THEN <<Len(data) - ShowCap>> ELSE <<>>],
                    0)

\* f"Found {len(data)} investor records:" and its variants: the count a
\* header states, if it states one.
Header(fmt, count) == [fmt |-> fmt, count |-> count]

\* A handler without the check for an empty result.
NeverNoRecords(data) == FALSE

\* if not data:
NoRecords(data) == data = <<>>

(***************************************************************************)
(* get_investor_data                                                       *)
(***************************************************************************)
get_investor_data_query(call) ==
    [select_columns |-> Columns, filters |-> NoFilters, limit |-> call.limit]

get_investor_data_body(call, f) ==
    IF f.kind = "raise" THEN Raise(f.exc)
    ELSE IF NoRecords(f.data) THEN Return(NoInvestorData, 0)
    ELSE FormatRecords(Header("Found {} investor records:", <<Len(f.data)>>), f.data)

(***************************************************************************)
(* search_investors_by_criteria                                            *)
(***************************************************************************)
investor_type_mapping ==
    << << <<97, 110, 103, 101, 108>>, <<65, 110, 103, 101, 108, 32, 110, 101, 116, 119, 111, 114, 107>> >>,  \* "angel": "Angel network"
       << <<97, 110, 103, 101, 108, 32, 110, 101, 116, 119, 111, 114, 107>>, <<65, 110, 103, 101, 108, 32, 110, 101, 116, 119, 111, 114, 107>> >>,  \* "angel network": "Angel network"
       << <<118, 99>>, <<86, 67>> >>,  \* "vc": "VC"
       << <<118, 101, 110, 116, 117, 114, 101, 32, 99, 97, 112, 105, 116, 97, 108>>, <<86, 67>> >>,  \* "venture capital": "VC"
       << <<112, 101>>, <<80, 69>> >>,  \* "pe": "PE"
       << <<112, 114, 105, 118, 97, 116, 101, 32, 101, 113, 117, 105, 116, 121>>, <<80, 69>> >>,  \* "private equity": "PE"
       << <<99, 118, 99>>, <<67, 86, 67>> >>,  \* "cvc": "CVC"
       << <<99, 111, 114, 112, 111, 114, 97, 116, 101, 32, 118, 101, 110, 116, 117, 114, 101, 32, 99, 97, 112, 105, 116, 97, 108>>, <<67, 86, 67>> >> >>  \* "corporate venture capital": "CVC"

country_mapping ==
    << << <<117, 110, 105, 116, 101, 100, 32, 115, 116, 97, 116, 101, 115>>, <<85, 83, 65>> >>,  \* "united states": "USA"
       << <<117, 115, 97>>, <<85, 83, 65>> >>,  \* "usa": "USA"
       << <<117, 115>>, <<85, 83, 65>> >>,  \* "us": "USA"
       << <<97, 109, 101, 114, 105, 99, 97>>, <<85, 83, 65>> >>,  \* "america": "USA"
       << <<117, 110, 105, 116, 101, 100, 32, 107, 105, 110, 103, 100, 111, 109>>, <<85, 75>> >>,  \* "united kingdom": "UK"
       << <<117, 107>>, <<85, 75>> >>,  \* "uk": "UK"
       << <<101, 110, 103, 108, 97, 110, 100>>, <<85, 75>> >>,  \* "england": "UK"
       << <<103, 114, 101, 97, 116, 32, 98, 114, 105, 116, 97, 105, 110>>, <<85, 75>> >>,  \* "great britain": "UK"
       << <<103, 101, 114, 109, 97, 110, 121>>, <<71, 101, 114, 109, 97, 110, 121>> >>,  \* "germany": "Germany"
       << <<102, 114, 97, 110, 99, 101>>, <<70, 114, 97, 110, 99, 101>> >>,  \* "france": "France"
       << <<99, 97, 110, 97, 100, 97>>, <<67, 97, 110, 97, 100, 97>> >>,  \* "canada": "Canada"
       << <<97, 117, 115, 116, 114, 97, 108, 105, 97>>, <<65, 117, 115, 116, 114, 97, 108, 105, 97>> >>,  \* "australia": "Australia"
       << <<106, 97, 112, 97, 110>>, <<74, 97, 112, 97, 110>> >>,  \* "japan": "Japan"
       << <<99, 104, 105, 110, 97>>, <<67, 104, 105, 110, 97>> >>,  \* "china": "China"
       << <<105, 110, 100, 105, 97>>, <<73, 110, 100, 105, 97>> >>,  \* "india": "India"
       << <<115, 105, 110, 103, 97, 112, 111, 114, 101>>, <<83, 105, 110, 103, 97, 112, 111, 114, 101>> >>,  \* "singapore": "Singapore"
       << <<110, 101, 116, 104, 101, 114, 108, 97, 110, 100, 115>>, <<78, 101, 116, 104, 101, 114, 108, 97, 110, 100, 115>> >>,  \* "netherlands": "Netherlands"
       << <<115, 119, 101, 100, 101, 110>>, <<83, 119, 101, 100, 101, 110>> >>,  \* "sweden": "Sweden"
       << <<115, 119, 105, 116, 122, 101, 114, 108, 97, 110, 100>>, <<83, 119, 105, 116, 122, 101, 114, 108, 97, 110, 100>> >>,  \* "switzerland": "Switzerland"
       << <<105, 115, 114, 97, 101, 108>>, <<73, 115, 114, 97, 101, 108>> >> >>  \* "israel": "Israel"

\* mapping.get(key, default) on a table of <<key, value>> pairs
MapGet(mapping, key, default) ==
    LET hits == {i \in 1..Len(mapping) : mapping[i][1] = key}
    IN  IF hits = {} THEN default ELSE mapping[CHOOSE i \in hits : TRUE][2]

\* A lookup of the input as typed, without lower-casing it.
NormalizeAsTyped(mapping, raw) == MapGet(mapping, raw, raw)

\* mapping.get(raw.lower(), raw)
Normalize(mapping, raw) == MapGet(mapping, Lower(raw), raw)

\* A filter map with an entry for every argument that is not None, the
\* empty string included.
BuildFiltersForEmpty(call) ==
    LET keys == {c \in Columns :
                    \/ c = "Investor type" /\ call.investor_type.k = "str"
                    \/ c = "Stage of investment" /\ call.stage.k = "str"
                    \/ c = "Countries of investment" /\ call.country.k = "str"
                    \/ c = "Global HQ" /\ call.hq_location.k = "str"}
    IN  [c \in keys |->
            CASE c = "Investor type" -> Normalize(investor_type_mapping, call.investor_type.s)
              [] c = "Stage of investment" -> call.stage.s
              [] c = "Countries of investment" -> Normalize(country_mapping, call.country.s)
              [] c = "Global HQ" -> call.hq_location.s]

\* filters = {}; one entry per argument that is truthy
BuildFilters(call) ==
    LET keys == {c \in Columns :
                    \/ c = "Investor type" /\ Truthy(call.investor_type)
                    \/ c = "Stage of investment" /\ Truthy(call.stage)
                    \/ c = "Countries of investment" /\ Truthy(call.country)
                    \/ c = "Global HQ" /\ Truthy(call.hq_location)}
    IN  [c \in keys |->
            CASE c = "Investor type" -> Normalize(investor_type_mapping, call.investor_type.s)
              [] c = "Stage of investment" -> call.stage.s
              [] c = "Countries of investment" -> Normalize(country_mapping, call.country.s)
              [] c = "Global HQ" -> call.hq_location.s]

search_investors_by_criteria_query(call) ==
    [select_columns |-> Columns, filters |-> BuildFilters(call), limit |-> call.limit]

\* filter_desc, and f"No investors found matching {filter_str}."
NoMatch(desc) == [t |-> "no_match", desc |-> desc]

Described(label, arg) == IF Truthy(arg) THEN <<[label |-> label, value |-> arg.s]>> ELSE <<>>

search_investors_by_criteria_body(call, f) ==
    IF f.kind = "raise" THEN Raise(f.exc)
    ELSE IF NoRecords(f.data)
    THEN Return(NoMatch(Described("type: ", call.investor_type)
                        \o Described("stage: ", call.stage)
                        \o Described("country: ", call.country)
                        \o Described("HQ location: ", call.hq_location)), 0)
    ELSE FormatRecords(Header("Found {} investors matching your criteria:", <<Len(f.data)>>),
                       f.data)

(***************************************************************************)
(* get_available_investor_types, get_available_countries                   *)
(***************************************************************************)
\* sorted(set of str)
RECURSIVE SortStrings(_)
SortStrings(S) ==
    IF S = {} THEN <<>>
    ELSE LET m == CHOOSE x \in S : \A y \in S : ~StrLess(y, x)
         IN  <<m>> \o SortStrings(S \ {m})

Listing(title, items) == [t |-> "listing", title |-> title, items |-> items, total |-> Len(items)]

get_available_investor_types_query(call) ==
    [select_columns |-> {"Investor type"}, filters |-> NoFilters, limit |-> Null]

get_available_investor_types_body(call, f) ==
    IF f.kind = "raise" THEN Raise(f.exc)
    ELSE IF NoRecords(f.data) THEN Return(NoInvestorData, 0)
    ELSE LET investor_types ==
                 {Get(f.data[i], "Investor type").s :
                     i \in {j \in 1..Len(f.data) : Truthy(Get(f.data[j], "Investor type"))}}
         IN  IF investor_types = {}
             THEN Return(Literal("No investor types found in the database."), 0)
             ELSE Return(Listing("Available investor types in the database:",
                                 SortStrings(investor_types)), 0)

get_available_countries_query(call) ==
    [select_columns |-> {"Countries of investment"}, filters |-> NoFilters, limit |-> Null]

\* The names one countries value adds to the set: every piece of
\* split(","), stripped, when the value holds a comma, else the stripped value.
CountryNames(country) ==
    IF 44 \in {country[i] : i \in 1..Len(country)}
    THEN LET pieces == SplitOn(country, 44)
         IN  {Strip(pieces[i]) : i \in 1..Len(pieces)}
    ELSE {Strip(country)}

get_available_countries_body(call, f) ==
    IF f.kind = "raise" THEN Raise(f.exc)
    ELSE IF NoRecords(f.data) THEN Return(NoInvestorData, 0)
    ELSE LET with == {j \in 1..Len(f.data) : Truthy(Get(f.data[j], "Countries of investment"))}
             countries == UNION {CountryNames(Get(f.data[j], "Countries of investment").s) : j \in with}
         IN  IF countries = {}
             THEN Return(Literal("No countries found in the database."), 0)
             ELSE Return(Listing("Available countries in the database:",
                                 SortStrings(countries)), 0)

(***************************************************************************)
(* get_location_search_guide                                               *)
(***************************************************************************)
get_location_search_guide_body == Return(Literal("Location Search Guide: ..."), 0)

(***************************************************************************)
(* Frequency counts: a dict in insertion order, as a sequence of           *)
(* [key, n] entries.                                                       *)
(***************************************************************************)
\* A count that starts again at 1 when its key is met again.
BumpRestarts(counts, key) ==
    LET hits == {i \in 1..Len(counts) : counts[i].key = key}
    IN  IF hits = {}
        THEN Append(counts, [key |-> key, n |-> 1])
        ELSE LET h == CHOOSE i \in hits : TRUE
             IN  [counts EXCEPT ![h].n = 1]

\* counts[key] = counts.get(key, 0) + 1
Bump(counts, key) ==
    LET hits == {i \in 1..Len(counts) : counts[i].key = key}
    IN  IF hits = {}
        THEN Append(counts, [key |-> key, n |-> 1])
        ELSE LET h == CHOOSE i \in hits : TRUE
             IN  [counts EXCEPT ![h].n = @ + 1]

RECURSIVE Tally(_, _)
Tally(keys, counts) ==
    IF keys = <<>> THEN counts ELSE Tally(Tail(keys), Bump(counts, Head(keys)))

\* sum(counts.values())
RECURSIVE SumCounts(_)
SumCounts(counts) == IF counts = <<>> THEN 0 ELSE Head(counts).n + SumCounts(Tail(counts))

\* A sort by count that is not stable: of the entries of greatest count the
\* last comes first.
RECURSIVE SortByCountUnstable(_)
SortByCountUnstable(counts) ==
    IF counts = <<>> THEN <<>>
    ELSE LET top == {i \in 1..Len(counts) : \A j \in 1..Len(counts) : counts[j].n <= counts[i].n}
             h == CHOOSE i \in top : \A j \in top : i >= j
         IN  <<counts[h]>>
             \o SortByCountUnstable(SubSeq(counts, 1, h - 1)
                                    \o SubSeq(counts, h + 1, Len(counts)))

\* sorted(counts.items(), key=lambda x: x[1], reverse=True): a stable sort,
\* entries of equal count keep their order
RECURSIVE SortByCount(_)
SortByCount(counts) ==
    IF counts = <<>> THEN <<>>
    ELSE LET top == {i \in 1..Len(counts) : \A j \in 1..Len(counts) : counts[j].n <= counts[i].n}
             h == CHOOSE i \in top : \A j \in top : i <= j
         IN  <<counts[h]>>
             \o SortByCount(SubSeq(counts, 1, h - 1) \o SubSeq(counts, h + 1, Len(counts)))

\* f"{(count / total) * 100:.1f}", in tenths of a percent: the nearest
\* tenth, a tie going to the even one
Percentage(count, total) ==
    LET q == (count * 1000) \div total
        r == (count * 1000) % total
    IN  IF 2 * r > total THEN q + 1
        ELSE IF 2 * r < total THEN q
        ELSE IF q % 2 = 0 THEN q ELSE q + 1

\* One "• key: count (pct%)" line per entry.
CountLines(entries, total) ==
    [i \in 1..Len(entries) |->
        [key |-> entries[i].key, n |-> entries[i].n,
         pct |-> Percentage(entries[i].n, total)]]

\* The values of one column that are truthy, in record order.
ColumnValues(data, c) ==
    LET with == SelectSeq(data, LAMBDA r : Truthy(Get(r, c)))
    IN  [i \in 1..Len(with) |-> Get(with[i], c).s]

\* stage_counts / type_counts after the counting loop: the count of every
\* truthy value of the column, in the order the values first occur.
stage_counts(data) == Tally(ColumnValues(data, "Stage of investment"), <<>>)
type_counts(data) == Tally(ColumnValues(data, "Investor type"), <<>>)

(***************************************************************************)
(* analyze_investment_stages                                               *)
(***************************************************************************)
analyze_investment_stages_query(call) ==
    [select_columns |-> {"Stage of investment"}, filters |-> NoFilters, limit |-> Null]

analyze_investment_stages_body(call, f) ==
    IF f.kind = "raise" THEN Raise(f.exc)
    ELSE IF NoRecords(f.data) THEN Return(NoInvestorData, 0)
    ELSE LET sorted_stages == SortByCount(stage_counts(f.data))
             total_investors == SumCounts(stage_counts(f.data))
         IN  IF stage_counts(f.data) = <<>>
             THEN Return(Literal("No investment stage data found."), 0)
             ELSE Return([t |-> "stage_analysis",
                          lines |-> CountLines(sorted_stages, total_investors),
                          total |-> total_investors,
                          unique |-> Len(stage_counts(f.data))],
                         Len(sorted_stages))

(***************************************************************************)
(* find_investors_by_cheque_size                                           *)
(***************************************************************************)
find_investors_by_cheque_size_query(call) ==
    [select_columns |-> Columns, filters |-> NoFilters, limit |-> Null]

\* A filter that compares the strings as they are, without lower-casing.
ChequeKeepsCaseSensitive(investor, min_amount, max_amount) ==
    LET min_cheque == Get(investor, "First cheque minimum")
        max_cheque == Get(investor, "First cheque maximum")
    IN  /\ Truthy(min_cheque)
        /\ Truthy(max_cheque)
        /\ ~(Truthy(min_amount) /\ StrLess(min_cheque.s, min_amount.s))
        /\ ~(Truthy(max_amount) /\ StrGreater(max_cheque.s, max_amount.s))

\* Whether the loop appends the investor to filtered_data.
ChequeKeeps(investor, min_amount, max_amount) ==
    LET min_cheque == Get(investor, "First cheque minimum")
        max_cheque == Get(investor, "First cheque maximum")
    IN  /\ Truthy(min_cheque)
        /\ Truthy(max_cheque)
        /\ ~(Truthy(min_amount) /\ StrLess(Lower(min_cheque.s), Lower(min_amount.s)))
        /\ ~(Truthy(max_amount) /\ StrGreater(Lower(max_cheque.s), Lower(max_amount.s)))

\* filtered_data after the loop
ChequeFiltered(call, data) ==
    SelectSeq(data, LAMBDA r : ChequeKeeps(r, call.min_amount, call.max_amount))

\* A cut taken whenever a limit is given, `if limit is not None`: a limit of
\* 0 keeps nothing.
ChequeLimitedWhenGiven(call, data) ==
    IF call.limit.k = "int" THEN Take(ChequeFiltered(call, data), call.limit.n)
    ELSE ChequeFiltered(call, data)

\* if limit: filtered_data = filtered_data[:limit]
ChequeLimited(call, data) ==
    IF Truthy(call.limit) THEN Take(ChequeFiltered(call, data), call.limit.n)
    ELSE ChequeFiltered(call, data)

find_investors_by_cheque_size_body(call, f) ==
    IF f.kind = "raise" THEN Raise(f.exc)
    ELSE IF NoRecords(f.data) THEN Return(NoInvestorData, 0)
    ELSE LET filtered_data == ChequeFiltered(call, f.data)
             limited == ChequeLimited(call, f.data)
         IN  IF filtered_data = <<>>
             THEN Return(NoMatch(Described("minimum: ", call.min_amount)
                                 \o Described("maximum: ", call.max_amount)), 0)
             ELSE FormatRecords(Header("Found {} investors matching your criteria:",
                                       <<Len(limited)>>), limited)

(***************************************************************************)
(* analyze_investment_thesis                                               *)
(***************************************************************************)
\* sorted_keywords[:10]
TopThemes == 10
\* if len(theses) > 5
MinGroup == 5

common_keywords ==
    << <<65, 73>>,  \* "AI"
       <<97, 114, 116, 105, 102, 105, 99, 105, 97, 108, 32, 105, 110, 116, 101, 108, 108, 105, 103, 101, 110, 99, 101>>,  \* "artificial intelligence"
       <<109, 97, 99, 104, 105, 110, 101, 32, 108, 101, 97, 114, 110, 105, 110, 103>>,  \* "machine learning"
       <<77, 76>>,  \* "ML"
       <<102, 105, 110, 116, 101, 99, 104>>,  \* "fintech"
       <<102, 105, 110, 97, 110, 99, 105, 97, 108, 32, 116, 101, 99, 104, 110, 111, 108, 111, 103, 121>>,  \* "financial technology"
       <<104, 101, 97, 108, 116, 104, 116, 101, 99, 104>>,  \* "healthtech"
       <<104, 101, 97, 108, 116, 104, 99, 97, 114, 101>>,  \* "healthcare"
       <<83, 97, 97, 83>>,  \* "SaaS"
       <<115, 111, 102, 116, 119, 97, 114, 101>>,  \* "software"
       <<101, 110, 116, 101, 114, 112, 114, 105, 115, 101>>,  \* "enterprise"
       <<66, 50, 66>>,  \* "B2B"
       <<66, 50, 67>>,  \* "B2C"
       <<101, 99, 111, 109, 109, 101, 114, 99, 101>>,  \* "ecommerce"
       <<109, 97, 114, 107, 101, 116, 112, 108, 97, 99, 101>>,  \* "marketplace"
       <<112, 108, 97, 116, 102, 111, 114, 109>>,  \* "platform"
       <<109, 111, 98, 105, 108, 101>>,  \* "mobile"
       <<98, 105, 111, 116, 101, 99, 104>>,  \* "biotech"
       <<98, 105, 111, 116, 101, 99, 104, 110, 111, 108, 111, 103, 121>>,  \* "biotechnology"
       <<99, 108, 101, 97, 110, 32, 101, 110, 101, 114, 103, 121>>,  \* "clean energy"
       <<115, 117, 115, 116, 97, 105, 110, 97, 98, 105, 108, 105, 116, 121>>,  \* "sustainability"
       <<99, 121, 98, 101, 114, 115, 101, 99, 117, 114, 105, 116, 121>>,  \* "cybersecurity"
       <<115, 101, 99, 117, 114, 105, 116, 121>>,  \* "security"
       <<98, 108, 111, 99, 107, 99, 104, 97, 105, 110>>,  \* "blockchain"
       <<99, 114, 121, 112, 116, 111>>,  \* "crypto"
       <<101, 100, 116, 101, 99, 104>>,  \* "edtech"
       <<101, 100, 117, 99, 97, 116, 105, 111, 110>>,  \* "education"
       <<114, 101, 97, 108, 32, 101, 115, 116, 97, 116, 101>>,  \* "real estate"
       <<112, 114, 111, 112, 116, 101, 99, 104>> >>  \* "proptech"

analyze_investment_thesis_query(call) ==
    [select_columns |-> {"Investment thesis", "Investor type", "Stage of investment"},
     filters |-> NoFilters, limit |-> Null]

analyze_investment_thesis_body(call, f) ==
    IF f.kind = "raise" THEN Raise(f.exc)
    ELSE IF NoRecords(f.data) THEN Return(NoInvestorData, 0)
    ELSE LET usable == SelectSeq(f.data, LAMBDA r :
                           /\ Truthy(Get(r, "Investment thesis"))
                           /\ Get(r, "Investment thesis") # Str(s_NA))
             thesis_data == [i \in 1..Len(usable) |->
                                [thesis |-> Get(usable[i], "Investment thesis").s,
                                 type |-> Get(usable[i], "Investor type"),
                                 stage |-> Get(usable[i], "Stage of investment")]]
             CountOf(keyword) ==
                 Cardinality({i \in 1..Len(thesis_data) :
                                 Contains(Lower(thesis_data[i].thesis), Lower(keyword))})
             found == SelectSeq(common_keywords, LAMBDA kw : CountOf(kw) > 0)
             keyword_counts == [i \in 1..Len(found) |-> [key |-> found[i], n |-> CountOf(found[i])]]
             sorted_keywords == SortByCount(keyword_counts)
             themes == Take(sorted_keywords, TopThemes)
             type_thesis == Tally([i \in 1..Len(thesis_data) |-> thesis_data[i].type], <<>>)
         IN  IF thesis_data = <<>>
             THEN Return(Literal("No investment thesis data found."), 0)
             ELSE Return([t |-> "thesis_analysis",
                          total |-> Len(thesis_data),
                          themes |-> CountLines(themes, Len(thesis_data)),
                          by_type |-> SelectSeq(type_thesis, LAMBDA e : e.n > MinGroup)],
                         Len(themes))

(***************************************************************************)
(* get_investor_statistics                                                 *)
(***************************************************************************)
\* sorted_types[:5], sorted_stages[:5], sorted_countries[:5]
TopN == 5

get_investor_statistics_query(call) ==
    [select_columns |-> Columns \ {"Website", "Investment thesis"},
     filters |-> NoFilters, limit |-> Null]

\* The keys one countries value counts: every piece of split(","),
\* stripped, when the value holds a comma, else the value as it is.
CountryKeys(countries) ==
    IF 44 \in {countries[i] : i \in 1..Len(countries)}
    THEN LET pieces == SplitOn(countries, 44)
         IN  [i \in 1..Len(pieces) |-> Strip(pieces[i])]
    ELSE <<countries>>

RECURSIVE Flatten(_)
Flatten(seqs) == IF seqs = <<>> THEN <<>> ELSE Head(seqs) \o Flatten(Tail(seqs))

\* country_counts after the counting loop
country_counts(data) ==
    LET values == ColumnValues(data, "Countries of investment")
    IN  Tally(Flatten([i \in 1..Len(values) |-> CountryKeys(values[i])]), <<>>)

get_investor_statistics_body(call, f) ==
    IF f.kind = "raise" THEN Raise(f.exc)
    ELSE IF NoRecords(f.data) THEN Return(NoInvestorData, 0)
    ELSE LET total_investors == Len(f.data)
             cheque_data ==
                 SelectSeq(f.data, LAMBDA r :
                     /\ Truthy(Get(r, "First cheque minimum"))
                     /\ Truthy(Get(r, "First cheque maximum"))
                     /\ Get(r, "First cheque minimum") # Str(s_NA)
                     /\ Get(r, "First cheque maximum") # Str(s_NA))
             sorted_types == Take(SortByCount(type_counts(f.data)), TopN)
             sorted_stages == Take(SortByCount(stage_counts(f.data)), TopN)
             sorted_countries == Take(SortByCount(country_counts(f.data)), TopN)
         IN  Return([t |-> "statistics",
                     total |-> total_investors,
                     types |-> CountLines(sorted_types, total_investors),
                     stages |-> CountLines(sorted_stages, total_investors),
                     countries |-> CountLines(sorted_countries, total_investors),
                     cheque |-> IF cheque_data = <<>> THEN <<>>
                                ELSE <<[n |-> Len(cheque_data),
                                        pct |-> Percentage(Len(cheque_data), total_investors)]>>],
                    Len(sorted_types) + Len(sorted_stages) + Len(sorted_countries)
                        + (IF cheque_data = <<>> THEN 0 ELSE 1))

(***************************************************************************)
(* find_similar_investors                                                  *)
(***************************************************************************)
\* score += 3 / 2 / 2 / 1
TypeWeight == 3
StageWeight == 2
CountriesWeight == 2
HqWeight == 1

\* The target lookup.
find_similar_investors_target_query(call) ==
    [select_columns |-> {"Investor name", "Investor type", "Stage of investment",
                         "Countries of investment", "Global HQ"},
     filters |-> [c \in {"Investor name"} |-> call.investor_name.s],
     limit |-> Num(1)]

\* The candidate fetch.
find_similar_investors_query(call) ==
    [select_columns |-> Columns, filters |-> NoFilters, limit |-> Null]

NoInvestorFound(name) == [t |-> "no_investor_found", name |-> name]
NoSimilarFound(name) == [t |-> "no_similar_found", name |-> name]

\* The part of the body between the two fetches: the exception or text it
\* ends with, when it ends there.
find_similar_investors_target(call, f1) ==
    IF f1.kind = "raise" THEN Raise(f1.exc)
    ELSE Return(NoInvestorFound(call.investor_name.s), 0)

\* any(word in investor_hq for word in target_hq.split())
HqSimilar(target_hq, investor_hq) ==
    /\ Truthy(target_hq)
    /\ Truthy(investor_hq)
    /\ LET words == SplitWS(target_hq.s)
       IN  \E i \in 1..Len(words) : Contains(investor_hq.s, words[i])

\* A scorer that gives the headquarters point to every candidate that has a
\* headquarters, whatever words it holds.
ScoredAnyHq(target, investor) ==
    LET same_type == Get(investor, "Investor type") = Get(target, "Investor type")
        same_stage == Get(investor, "Stage of investment") = Get(target, "Stage of investment")
        same_countries ==
            Get(investor, "Countries of investment") = Get(target, "Countries of investment")
        hq == /\ Truthy(GetDefault(target, "Global HQ", <<>>))
              /\ Truthy(GetDefault(investor, "Global HQ", <<>>))
    IN  [investor |-> investor,
         score |-> (IF same_type THEN TypeWeight ELSE 0)
                   + (IF same_stage THEN StageWeight ELSE 0)
                   + (IF same_countries THEN CountriesWeight ELSE 0)
                   + (IF hq THEN HqWeight ELSE 0),
         factors |-> (IF same_type THEN <<"same investor type">> ELSE <<>>)
                     \o (IF same_stage THEN <<"same investment stage">> ELSE <<>>)
                     \o (IF same_countries THEN <<"same investment countries">> ELSE <<>>)
                     \o (IF hq THEN <<"similar HQ location">> ELSE <<>>)]

\* A scorer for which a field that is missing on both sides is no match.
ScoredNullsDiffer(target, investor) ==
    LET same(c) == Truthy(Get(investor, c)) /\ Get(investor, c) = Get(target, c)
        same_type == same("Investor type")
        same_stage == same("Stage of investment")
        same_countries == same("Countries of investment")
        hq == HqSimilar(GetDefault(target, "Global HQ", <<>>),
                        GetDefault(investor, "Global HQ", <<>>))
    IN  [investor |-> investor,
         score |-> (IF same_type THEN TypeWeight ELSE 0)
                   + (IF same_stage THEN StageWeight ELSE 0)
                   + (IF same_countries THEN CountriesWeight ELSE 0)
                   + (IF hq THEN HqWeight ELSE 0),
         factors |-> (IF same_type THEN <<"same investor type">> ELSE <<>>)
                     \o (IF same_stage THEN <<"same investment stage">> ELSE <<>>)
                     \o (IF same_countries THEN <<"same investment countries">> ELSE <<>>)
                     \o (IF hq THEN <<"similar HQ location">> ELSE <<>>)]

\* score and similarity_factors of one candidate
Scored(target, investor) ==
    LET same_type == Get(investor, "Investor type") = Get(target, "Investor type")
        same_stage == Get(investor, "Stage of investment") = Get(target, "Stage of investment")
        same_countries ==
            Get(investor, "Countries of investment") = Get(target, "Countries of investment")
        hq == HqSimilar(GetDefault(target, "Global HQ", <<>>),
                        GetDefault(investor, "Global HQ", <<>>))
    IN  [investor |-> investor,
         score |-> (IF same_type THEN TypeWeight ELSE 0)
                   + (IF same_stage THEN StageWeight ELSE 0)
                   + (IF same_countries THEN CountriesWeight ELSE 0)
                   + (IF hq THEN HqWeight ELSE 0),
         factors |-> (IF same_type THEN <<"same investor type">> ELSE <<>>)
                     \o (IF same_stage THEN <<"same investment stage">> ELSE <<>>)
                     \o (IF same_countries THEN <<"same investment countries">> ELSE <<>>)
                     \o (IF hq THEN <<"similar HQ location">> ELSE <<>>)]

\* A sort by score that is not stable: of the items of greatest score the
\* last comes first.
RECURSIVE SortByScoreUnstable(_)
SortByScoreUnstable(items) ==
    IF items = <<>> THEN <<>>
    ELSE LET top == {i \in 1..Len(items) : \A j \in 1..Len(items) : items[j].score <= items[i].score}
             h == CHOOSE i \in top : \A j \in top : i >= j
         IN  <<items[h]>>
             \o SortByScoreUnstable(SubSeq(items, 1, h - 1)
                                    \o SubSeq(items, h + 1, Len(items)))

\* scored_investors.sort(key=lambda x: x["score"], reverse=True): stable
RECURSIVE SortByScore(_)
SortByScore(items) ==
    IF items = <<>> THEN <<>>
    ELSE LET top == {i \in 1..Len(items) : \A j \in 1..Len(items) : items[j].score <= items[i].score}
             h == CHOOSE i \in top : \A j \in top : i <= j
         IN  <<items[h]>>
             \o SortByScore(SubSeq(items, 1, h - 1) \o SubSeq(items, h + 1, Len(items)))

\* The scored candidates, ranked: the target's namesakes skipped, the
\* candidates of score 0 dropped.
Ranked(target, similar_data, investor_name) ==
    LET others == SelectSeq(similar_data, LAMBDA r :
                      Get(r, "Investor name") # Str(investor_name))
        scored == [i \in 1..Len(others) |-> Scored(target, others[i])]
    IN  SortByScore(SelectSeq(scored, LAMBDA x : x.score > 0))

\* The formatter of this handler: a block also states the score and the
\* factors, the header states no count.
FormatSimilar(investor_name, scored_investors) ==
    LET shown == Take(scored_investors, ShowCap)
    IN  IF \E i \in 1..Len(shown) : ThesisOf(shown[i].investor).k # "str"
        THEN Raise(TypeErrorLen)
        ELSE Return([t |-> "records",
                     header |-> Header("Similar investors to '{}':", <<>>),
                     subject |-> investor_name,
                     blocks |-> [i \in 1..Len(shown) |->
                                    [b |-> Block(i, shown[i].investor),
                                     score |-> shown[i].score,
                                     factors |-> shown[i].factors]],
                     more |-> IF Len(scored_investors) > ShowCap
                              THEN <<Len(scored_investors) - ShowCap>> ELSE <<>>],
                    0)

\* if limit: scored_investors = scored_investors[:limit]
SimilarLimited(call, target, similar_data) ==
    LET ranked == Ranked(target, similar_data, call.investor_name.s)
    IN  IF Truthy(call.limit) THEN Take(ranked, call.limit.n) ELSE ranked

\* The part of the body after the candidate fetch.
find_similar_investors_body(call, f1, f2) ==
    IF f2.kind = "raise" THEN Raise(f2.exc)
    ELSE IF NoRecords(f2.data) THEN Return(NoInvestorData, 0)
    ELSE LET ranked == Ranked(f1.data[1], f2.data, call.investor_name.s)
             limited == SimilarLimited(call, f1.data[1], f2.data)
         IN  IF ranked = <<>>
             THEN Return(NoSimilarFound(call.investor_name.s), 0)
             ELSE FormatSimilar(call.investor_name.s, limited)

(***************************************************************************)
(* The invocations the tool host can make.                                 *)
(***************************************************************************)
Limits == {Null, Num(0), Num(1), Num(2), Num(ShowCap + 1)}

SearchArgs ==
    { <<Null, Null, Null, Null, Null>>,
      <<Str(<<>>), Str(<<>>), Str(<<>>), Str(<<>>), Num(0)>>,
      <<Str(s_vc), Null, Null, Null, Null>>,
      <<Str(s_VC), Str(s_Seed), Null, Null, Num(1)>>,
      <<Str(s_Angel), Null, Null, Null, Null>>,
      <<Str(s_Zed), Null, Null, Null, Null>>,
      <<Null, Str(s_SeriesA), Str(s_UK), Null, Null>>,
      <<Null, Null, Str(s_usa), Null, Num(ShowCap + 1)>>,
      <<Null, Null, Null, Str(s_Berlin), Null>>,
      <<Str(s_PE), Null, Str(s_USA_USA), Str(<<>>), Null>>,
      <<Str(s_PrivateEquity), Null, Str(s_GreatBritain), Null, Null>>,
      <<Null, Null, Null, Str(s_San), Null>> }

ChequeArgs ==
    { <<Null, Null, Null>>,
      <<Null, Null, Num(1)>>,
      <<Null, Null, Num(ShowCap + 1)>>,
      <<Str(s_10M), Null, Null>>,
      <<Str(<<>>), Str(s_5M), Null>>,
      <<Str(s_1M), Str(s_50M), Num(1)>>,
      <<Str(s_Zed), Null, Null>>,
      <<Null, Str(s_20M), Num(0)>>,
      <<Str(s_1m), Str(<<>>), Null>> }

Names == {s_Acme, s_Beta, s_Zed}

Calls ==
    {[op |-> "get_investor_data", limit |-> l] : l \in Limits}
    \cup {[op |-> "search_investors_by_criteria", investor_type |-> a[1], stage |-> a[2],
           country |-> a[3], hq_location |-> a[4], limit |-> a[5]] : a \in SearchArgs}
    \cup {[op |-> o] : o \in {"get_available_investor_types", "get_available_countries",
                              "get_location_search_guide", "analyze_investment_stages",
                              "analyze_investment_thesis", "get_investor_statistics"}}
    \cup {[op |-> "find_investors_by_cheque_size", min_amount |-> a[1], max_amount |-> a[2],
           limit |-> a[3]] : a \in ChequeArgs}
    \cup {[op |-> "find_similar_investors", investor_name |-> Str(n), limit |-> l] :
             n \in Names, l \in {Null, Num(0), Num(1), Num(ShowCap + 1)}}

(***************************************************************************)
(* State.                                                                  *)
(***************************************************************************)
VARIABLES
    table,      \* the rows of the remote table, in the order the store returns them
    seeded,     \* the rows the table held at the start
    creds,      \* whether SUPABASE_URL and SUPABASE_KEY are set
    pc,         \* per invocation slot: "idle", "running" or "done"
    call,       \* per slot: the handler invoked and its arguments
    fetched,    \* per slot: the outcomes of the fetches made so far, in order
    result      \* per slot: what the handler ended with

vars == <<table, seeded, creds, pc, call, fetched, result>>

Procs == {1, 2}

NoCall == [op |-> "none"]
NoResult == [kind |-> "none"]

TypeOK ==
    /\ table \in Tables
    /\ creds \in [url : BOOLEAN, key : BOOLEAN]
    /\ pc \in [Procs -> {"idle", "running", "done"}]
    /\ \A p \in Procs : call[p] \in Calls \cup {NoCall}
    /\ \A p \in Procs : result[p].kind \in {"none", "return", "raise"}

Init ==
    /\ table \in Tables
    /\ seeded = table
    /\ creds \in [url : BOOLEAN, key : BOOLEAN]
    /\ pc = [p \in Procs |-> "idle"]
    /\ call = [p \in Procs |-> NoCall]
    /\ fetched = [p \in Procs |-> <<>>]
    /\ result = [p \in Procs |-> NoResult]

(***************************************************************************)
(* Steps of an invocation.                                                 *)
(***************************************************************************)
\* The tool host calls a handler.
Invoke(p, c) ==
    /\ pc[p] = "idle"
    /\ pc' = [pc EXCEPT ![p] = "running"]
    /\ call' = [call EXCEPT ![p] = c]
    /\ fetched' = [fetched EXCEPT ![p] = <<>>]
    /\ result' = [result EXCEPT ![p] = NoResult]
    /\ UNCHANGED <<table, seeded, creds>>

\* A handler that goes on to the candidate fetch without looking at the target.
ContinuesWithoutTarget(f1) == f1.kind = "data"

\* if not target_data: return ...; otherwise the body goes on to the
\* candidate fetch
find_similar_investors_continues(f1) == f1.kind = "data" /\ f1.data # <<>>

\* A handler that calls the fetch again after it failed.
AtFetchWithRetry(c, fs) ==
    \/ c.op \notin {"none", "get_location_search_guide"} /\ Len(fs) = 0
    \/ c.op \notin {"none", "get_location_search_guide"} /\ Len(fs) = 1
       /\ fs[1].kind = "raise"
    \/ c.op = "find_similar_investors" /\ Len(fs) = 1
       /\ find_similar_investors_continues(fs[1])

\* Whether the handler's next statement is a call of fetch_data_from_supabase.
AtFetch(c, fs) ==
    \/ c.op \notin {"none", "get_location_search_guide"} /\ Len(fs) = 0
    \/ c.op = "find_similar_investors" /\ Len(fs) = 1
       /\ find_similar_investors_continues(fs[1])

\* The arguments of that call.
QueryOf(c, fs) ==
    CASE c.op = "get_investor_data" -> get_investor_data_query(c)
      [] c.op = "search_investors_by_criteria" -> search_investors_by_criteria_query(c)
      [] c.op = "get_available_investor_types" -> get_available_investor_types_query(c)
      [] c.op = "get_available_countries" -> get_available_countries_query(c)
      [] c.op = "analyze_investment_stages" -> analyze_investment_stages_query(c)
      [] c.op = "find_investors_by_cheque_size" -> find_investors_by_cheque_size_query(c)
      [] c.op = "analyze_investment_thesis" -> analyze_investment_thesis_query(c)
      [] c.op = "get_investor_statistics" -> get_investor_statistics_query(c)
      [] c.op = "find_similar_investors" ->
            IF Len(fs) = 0 THEN find_similar_investors_target_query(c)
            ELSE find_similar_investors_query(c)

\* What the invocation keeps of a fetch: its outcome, and for the record
\* whether a client was created and which request went to the store.
Kept(o, fargs) ==
    IF o.kind = "data"
    THEN [kind |-> "data", data |-> o.data, client |-> o.client, sent |-> o.sent,
          args |-> fargs]
    ELSE [kind |-> "raise", exc |-> o.exc, client |-> o.client, sent |-> o.sent,
          args |-> fargs]

\* Handlers that keep what the fetch returned in one module-level variable:
\* an invocation finds there what another invocation fetched.
SharedLocal(p) == IF fetched[1] # <<>> THEN fetched[1] ELSE fetched[p]

\* The local variables of slot p's invocation that hold what its fetches
\* returned (data, target_data, similar_data): each invocation has its own.
Local(p) == fetched[p]

\* Slot p's handler calls fetch_data_from_supabase and gets its outcome.
fetch_data_from_supabase(p) ==
    /\ pc[p] = "running"
    /\ AtFetch(call[p], Local(p))
    /\ \E fault \in Faults :
          LET fargs == QueryOf(call[p], Local(p))
              o == Fetch(creds, table, fargs, fault)
          IN  /\ fetched' = [fetched EXCEPT ![p] = Append(@, Kept(o, fargs))]
              /\ table' = o.table
    /\ UNCHANGED <<seeded, creds, pc, call, result>>

\* Slot p's handler ends with `outcome`.
Ends(p, outcome) ==
    /\ pc' = [pc EXCEPT ![p] = "done"]
    /\ result' = [result EXCEPT ![p] = outcome]
    /\ UNCHANGED <<table, seeded, creds, call, fetched>>

\* Slot p runs handler `op`, and its fetches so far are n.
At(p, op, n) ==
    /\ pc[p] = "running"
    /\ call[p].op = op
    /\ Len(Local(p)) = n
    /\ ~AtFetch(call[p], Local(p))

get_investor_data(p) ==
    /\ At(p, "get_investor_data", 1)
    /\ Ends(p, TryExcept("get_investor_data",
                         get_investor_data_body(call[p], Local(p)[1])))

search_investors_by_criteria(p) ==
    /\ At(p, "search_investors_by_criteria", 1)
    /\ Ends(p, TryExcept("search_investors_by_criteria",
                         search_investors_by_criteria_body(call[p], Local(p)[1])))

get_available_investor_types(p) ==
    /\ At(p, "get_available_investor_types", 1)
    /\ Ends(p, TryExcept("get_available_investor_types",
                         get_available_investor_types_body(call[p], Local(p)[1])))

get_available_countries(p) ==
    /\ At(p, "get_available_countries", 1)
    /\ Ends(p, TryExcept("get_available_countries",
                         get_available_countries_body(call[p], Local(p)[1])))

get_location_search_guide(p) ==
    /\ At(p, "get_location_search_guide", 0)
    /\ Ends(p, get_location_search_guide_body)

analyze_investment_stages(p) ==
    /\ At(p, "analyze_investment_stages", 1)
    /\ Ends(p, TryExcept("analyze_investment_stages",
                         analyze_investment_stages_body(call[p], Local(p)[1])))

find_investors_by_cheque_size(p) ==
    /\ At(p, "find_investors_by_cheque_size", 1)
    /\ Ends(p, TryExcept("find_investors_by_cheque_size",
                         find_investors_by_cheque_size_body(call[p], Local(p)[1])))

analyze_investment_thesis(p) ==
    /\ At(p, "analyze_investment_thesis", 1)
    /\ Ends(p, TryExcept("analyze_investment_thesis",
                         analyze_investment_thesis_body(call[p], Local(p)[1])))

get_investor_statistics(p) ==
    /\ At(p, "get_investor_statistics", 1)
    /\ Ends(p, TryExcept("get_investor_statistics",
                         get_investor_statistics_body(call[p], Local(p)[1])))

\* The handler ends after the target lookup (an exception, or no target).
find_similar_investors_no_target(p) ==
    /\ At(p, "find_similar_investors", 1)
    /\ Ends(p, TryExcept("find_similar_investors",
                         find_similar_investors_target(call[p], Local(p)[1])))

\* The handler ends after the candidate fetch.
find_similar_investors(p) ==
    /\ At(p, "find_similar_investors", 2)
    /\ Ends(p, TryExcept("find_similar_investors",
                         find_similar_investors_body(call[p], Local(p)[1], Local(p)[2])))

\* The tool host takes the text; the slot is free for the next invocation.
Respond(p) ==
    /\ pc[p] = "done"
    /\ pc' = [pc EXCEPT ![p] = "idle"]
    /\ call' = [call EXCEPT ![p] = NoCall]
    /\ fetched' = [fetched EXCEPT ![p] = <<>>]
    /\ result' = [result EXCEPT ![p] = NoResult]
    /\ UNCHANGED <<table, seeded, creds>>

Step(p) ==
    \/ \E c \in Calls : Invoke(p, c)
    \/ fetch_data_from_supabase(p)
    \/ get_investor_data(p)
    \/ search_investors_by_criteria(p)
    \/ get_available_investor_types(p)
    \/ get_available_countries(p)
    \/ get_location_search_guide(p)
    \/ analyze_investment_stages(p)
    \/ find_investors_by_cheque_size(p)
    \/ analyze_investment_thesis(p)
    \/ get_investor_statistics(p)
    \/ find_similar_investors_no_target(p)
    \/ find_similar_investors(p)
    \/ Respond(p)

\* One invocation at a time.
Next == Step(1)

Spec == Init /\ [][Next]_vars

(***************************************************************************)
(* Concurrent invocations: the host runs two handlers at once, their       *)
(* fetches interleaved.                                                    *)
(***************************************************************************)
ConcTables ==
    { <<>>,
      <<RowPool[1], RowPool[2]>>,
      <<RowPool[3], RowPool[1]>> }

ConcCalls ==
    { [op |-> "get_investor_data", limit |-> Null],
      [op |-> "get_investor_data", limit |-> Num(1)],
      [op |-> "search_investors_by_criteria", investor_type |-> Str(s_vc), stage |-> Null,
       country |-> Null, hq_location |-> Null, limit |-> Null],
      [op |-> "find_investors_by_cheque_size", min_amount |-> Str(s_10M),
       max_amount |-> Null, limit |-> Null],
      [op |-> "get_investor_statistics"],
      [op |-> "get_location_search_guide"],
      [op |-> "find_similar_investors", investor_name |-> Str(s_Acme), limit |-> Null],
      [op |-> "find_similar_investors", investor_name |-> Str(s_Zed), limit |-> Null] }

InitConc ==
    /\ table \in ConcTables
    /\ seeded = table
    /\ creds \in [url : {TRUE}, key : BOOLEAN]
    /\ pc = [p \in Procs |-> "idle"]
    /\ call = [p \in Procs |-> NoCall]
    /\ fetched = [p \in Procs |-> <<>>]
    /\ result = [p \in Procs |-> NoResult]

StepConc(p) ==
    \/ \E c \in ConcCalls : Invoke(p, c)
    \/ fetch_data_from_supabase(p)
    \/ get_investor_data(p)
    \/ search_investors_by_criteria(p)
    \/ get_location_search_guide(p)
    \/ find_investors_by_cheque_size(p)
    \/ get_investor_statistics(p)
    \/ find_similar_investors_no_target(p)
    \/ find_similar_investors(p)
    \/ Respond(p)

NextConc == \E p \in Procs : StepConc(p)

SpecConc == InitConc /\ [][NextConc]_vars

(***************************************************************************)
(* Properties.                                                             *)
(***************************************************************************)
DataOps ==
    {"get_investor_data", "search_investors_by_criteria", "get_available_investor_types",
     "get_available_countries", "analyze_investment_stages",
     "find_investors_by_cheque_size", "analyze_investment_thesis",
     "get_investor_statistics", "find_similar_investors"}

TextKinds ==
    {"literal", "error", "records", "no_match", "listing", "stage_analysis",
     "thesis_analysis", "statistics", "no_investor_found", "no_similar_found"}

\* Slot p's invocation of `op` has ended.
Done(p, op) == pc[p] = "done" /\ call[p].op = op

\* C1: each of the nine data-access handlers, whatever its fetch gave (records,
\* a configuration error, an execution error) and whatever the records hold
\* (null or absent fields included), ends by returning a text: no exception
\* leaves the handler.
C1_AlwaysReturnsText ==
    \A p \in Procs :
        (pc[p] = "done" /\ call[p].op \in DataOps)
            => /\ result[p].kind = "return"
               /\ result[p].text.t \in TextKinds

\* C1 witness: a handler whose body raised after a successful fetch (len() of
\* a null thesis) has ended with the error text.
C1_Witness ==
    \E p \in Procs :
        /\ Done(p, "get_investor_data")
        /\ fetched[p][1].kind = "data"
        /\ result[p].kind = "return"
        /\ result[p].text = ErrorText("get_investor_data", TypeErrorLen)

\* C2: in find_similar_investors, when the target lookup (Investor name =
\* investor_name, limit 1) returns no record, that stays the invocation's only
\* fetch, and the handler returns the "No investor found with name" text.
C2_NoTargetNoSecondFetch ==
    \A p \in Procs :
        (/\ call[p].op = "find_similar_investors"
         /\ Len(fetched[p]) >= 1
         /\ fetched[p][1].kind = "data"
         /\ fetched[p][1].data = <<>>)
            => /\ Len(fetched[p]) = 1
               /\ fetched[p][1].sent[1].filters
                      = [c \in {"Investor name"} |-> call[p].investor_name.s]
               /\ fetched[p][1].sent[1].limit = <<1>>
               /\ pc[p] = "done"
                      => result[p] = Return(NoInvestorFound(call[p].investor_name.s), 0)

\* C2 witness: the lookup of a name the non-empty table does not hold has
\* ended.
C2_Witness ==
    \E p \in Procs :
        /\ Done(p, "find_similar_investors")
        /\ table # <<>>
        /\ fetched[p][1].kind = "data"
        /\ fetched[p][1].data = <<>>
        /\ result[p].text.t = "no_investor_found"

\* C3: with a credential absent every fetch raises the configuration error
\* before a client is created or a request sent, and that error is not
\* wrapped as "Error fetching data from Supabase"; every other fetch error is
\* so wrapped; and a handler whose fetch raised returns its own fixed phrase
\* followed by the error text.
C3_ErrorKinds ==
    /\ \A a, b \in DataOps : a # b => ErrorPrefix(a) # ErrorPrefix(b)
    /\ \A p \in Procs : \A i \in 1..Len(fetched[p]) :
          LET f == fetched[p][i]
          IN  /\ (~creds.url \/ ~creds.key)
                    => /\ f.kind = "raise"
                       /\ f.exc.type = "ValueError"
                       /\ f.exc.msg = <<CredentialsMsg>>
                       /\ ~f.client
                       /\ f.sent = <<>>
              /\ (f.kind = "raise" /\ creds.url /\ creds.key)
                    => /\ f.exc.type = "Exception"
                       /\ Len(f.exc.msg) = 2
                       /\ f.exc.msg[1] = FetchErrorHead
              /\ (f.kind = "raise" /\ pc[p] = "done")
                    => /\ result[p].kind = "return"
                       /\ result[p].text.t = "error"
                       /\ result[p].text.parts = <<ErrorPrefix(call[p].op)>> \o f.exc.msg

\* C3 witness: a search has ended on the configuration error.
C3_Witness ==
    \E p \in Procs :
        /\ Done(p, "search_investors_by_criteria")
        /\ ~creds.key
        /\ result[p].kind = "return"
        /\ result[p].text.parts
               = <<"An error occurred while searching investors: ", CredentialsMsg>>

\* The fetch of slot p's invocation returned zero records.
EmptyFetch(p) ==
    /\ Len(fetched[p]) = 1
    /\ fetched[p][1].kind = "data"
    /\ fetched[p][1].data = <<>>

ListingOps == DataOps \ {"find_similar_investors"}

GivenCriteria(c) ==
    LET all == << [label |-> "type: ", value |-> c.investor_type],
                  [label |-> "stage: ", value |-> c.stage],
                  [label |-> "country: ", value |-> c.country],
                  [label |-> "HQ location: ", value |-> c.hq_location] >>
        given == SelectSeq(all, LAMBDA e : e.value.k = "str" /\ e.value.s # <<>>)
    IN  [i \in 1..Len(given) |-> [label |-> given[i].label, value |-> given[i].value.s]]

FaultAt(fs, i) ==
    IF i > Len(fs) \/ fs[i].kind = "data" THEN "none"
    ELSE IF fs[i].client THEN "execute" ELSE "create_client"

\* What a handler ends with, given the outcomes of its fetches.
Finish(c, fs) ==
    CASE c.op = "get_investor_data" ->
            TryExcept(c.op, get_investor_data_body(c, fs[1]))
      [] c.op = "search_investors_by_criteria" ->
            TryExcept(c.op, search_investors_by_criteria_body(c, fs[1]))
      [] c.op = "get_available_investor_types" ->
            TryExcept(c.op, get_available_investor_types_body(c, fs[1]))
      [] c.op = "get_available_countries" ->
            TryExcept(c.op, get_available_countries_body(c, fs[1]))
      [] c.op = "get_location_search_guide" -> get_location_search_guide_body
      [] c.op = "analyze_investment_stages" ->
            TryExcept(c.op, analyze_investment_stages_body(c, fs[1]))
      [] c.op = "find_investors_by_cheque_size" ->
            TryExcept(c.op, find_investors_by_cheque_size_body(c, fs[1]))
      [] c.op = "analyze_investment_thesis" ->
            TryExcept(c.op, analyze_investment_thesis_body(c, fs[1]))
      [] c.op = "get_investor_statistics" ->
            TryExcept(c.op, get_investor_statistics_body(c, fs[1]))
      [] c.op = "find_similar_investors" ->
            IF Len(fs) = 1
            THEN TryExcept(c.op, find_similar_investors_target(c, fs[1]))
            ELSE TryExcept(c.op, find_similar_investors_body(c, fs[1], fs[2]))

\* The invocation run alone, start to end, against table `tbl`: its fetches
\* one after the other, meeting the faults `faults`.
RunAlone(c, tbl, cr, faults) ==
    IF c.op = "get_location_search_guide" THEN Finish(c, <<>>)
    ELSE LET q1 == QueryOf(c, <<>>)
             f1 == Kept(Fetch(cr, tbl, q1, FaultAt(faults, 1)), q1)
         IN  IF c.op = "find_similar_investors" /\ f1.kind = "data" /\ f1.data # <<>>
             THEN LET q2 == QueryOf(c, <<f1>>)
                      f2 == Kept(Fetch(cr, tbl, q2, FaultAt(faults, 2)), q2)
                  IN  Finish(c, <<f1, f2>>)
             ELSE Finish(c, <<f1>>)

\* C6: handlers keep no state between invocations.  However the fetches of
\* two concurrent invocations interleave, each invocation returns the text it
\* returns when run alone on the same table with the same credentials and
\* fetch faults; and two invocations with the same arguments return the same
\* text.
C6_Stateless ==
    /\ \A p \in Procs :
          pc[p] = "done" => result[p] = RunAlone(call[p], table, creds, fetched[p])
    /\ \A p, q \in Procs :
          (/\ pc[p] = "done" /\ pc[q] = "done"
           /\ call[p] = call[q]
           /\ \A i \in 1..2 : FaultAt(fetched[p], i) = FaultAt(fetched[q], i))
              => result[p] = result[q]

\* C6 witness: two invocations of different handlers were in flight together,
\* one with two fetches and one with one, and both have ended with records.
C6_Witness ==
    /\ Done(1, "find_similar_investors")
    /\ Done(2, "get_investor_data")
    /\ Len(fetched[1]) = 2
    /\ fetched[1][2].kind = "data"
    /\ fetched[2][1].kind = "data"
    /\ result[1].text.t = "records"
    /\ result[2].text.t = "records"

\* C7: the fetches of an invocation are made one after the other and none is
\* retried: find_similar_investors makes at most two, the target lookup first
\* and the candidate fetch after it; every other data handler makes exactly
\* one; get_location_search_guide makes none; a fetch that raised is the
\* invocation's last.
C7_FetchDiscipline ==
    \A p \in Procs :
        LET c == call[p]
            fs == fetched[p]
        IN  /\ c.op = "get_location_search_guide" => Len(fs) = 0
            /\ c.op \in ListingOps => Len(fs) <= 1 /\ (pc[p] = "done" => Len(fs) = 1)
            /\ c.op = "find_similar_investors"
                  => /\ Len(fs) <= 2
                     /\ pc[p] = "done" => Len(fs) >= 1
                     /\ Len(fs) >= 1
                           => /\ DOMAIN fs[1].args.filters = {"Investor name"}
                              /\ fs[1].args.limit = Num(1)
                     /\ Len(fs) = 2
                           => /\ DOMAIN fs[2].args.filters = {}
                              /\ fs[2].args.limit = Null
                              /\ fs[2].args.select_columns = Columns
            /\ \A i \in 1..(Len(fs) - 1) : fs[i].kind = "data"

\* C7 witness: find_similar_investors has ended after two fetches, the second
\* of which raised.
C7_Witness ==
    \E p \in Procs :
        /\ Done(p, "find_similar_investors")
        /\ Len(fetched[p]) = 2
        /\ fetched[p][1].kind = "data"
        /\ fetched[p][2].kind = "raise"

FormatOps ==
    {"get_investor_data", "search_investors_by_criteria",
     "find_investors_by_cheque_size", "find_similar_investors"}

\* The record list a handler hands to its formatter loop.
Handed(c, fs) ==
    CASE c.op = "find_investors_by_cheque_size" -> ChequeLimited(c, fs[1].data)
      [] c.op = "find_similar_investors" ->
            LET items == SimilarLimited(c, fs[1].data[1], fs[2].data)
            IN  [i \in 1..Len(items) |-> items[i].investor]
      [] OTHER -> fs[1].data

\* Slot p's invocation has ended, and it handed a non-empty list to the
\* formatter.
Formatted(p) ==
    /\ pc[p] = "done"
    /\ call[p].op \in FormatOps
    /\ Len(fetched[p]) = (IF call[p].op = "find_similar_investors" THEN 2 ELSE 1)
    /\ \A i \in 1..Len(fetched[p]) : fetched[p][i].kind = "data"
    /\ Handed(call[p], fetched[p]) # <<>>

\* The i-th per-record block of a formatted text.
BlockOf(text, i) == IF "subject" \in DOMAIN text THEN text.blocks[i].b ELSE text.blocks[i]

\* What a block shows for a column.
ShownFor(block, c) ==
    CASE c = "Investor name" -> block.name
      [] c = "Website" -> block.website
      [] c = "Global HQ" -> block.hq
      [] c = "Countries of investment" -> block.countries
      [] c = "Stage of investment" -> block.stage
      [] c = "Investment thesis" -> block.thesis
      [] c = "Investor type" -> block.type
      [] c = "First cheque minimum" -> block.cheque_min
      [] c = "First cheque maximum" -> block.cheque_max

\* C8 as stated: for every non-empty record list handed to the formatter (list
\* investors, search, cheque-size filter, similar investors) the output has a
\* header stating the total count of the list, one block for each of the first
\* 10 records in order, numbered from 1, and the trailing "N more" line, with
\* N = total - 10, exactly when the total exceeds 10.
C8_AsStated ==
    \A p \in Procs :
        Formatted(p)
            => LET list == Handed(call[p], fetched[p])
                   text == result[p].text
               IN  /\ result[p].kind = "return"
                   /\ text.t = "records"
                   /\ text.header.count = <<Len(list)>>
                   /\ Len(text.blocks) = Min(Len(list), ShowCap)
                   /\ \A i \in 1..Len(text.blocks) :
                         /\ BlockOf(text, i).ordinal = i
                         /\ BlockOf(text, i).name
                                = Render(GetDefault(list[i], "Investor name", s_NA))
                   /\ text.more = (IF Len(list) > ShowCap
                                   THEN <<Len(list) - ShowCap>> ELSE <<>>)

\* C9 as stated: the formatter never fails, and each of the nine fields of a
\* shown record that is absent or null is rendered as "N/A".
C9_AsStated ==
    \A p \in Procs :
        Formatted(p)
            => LET list == Handed(call[p], fetched[p])
                   text == result[p].text
               IN  /\ result[p].kind = "return"
                   /\ text.t = "records"
                   /\ \A i \in 1..Len(text.blocks) : \A c \in Columns :
                         list[i][c].k \in {"absent", "null"}
                             => ShownFor(BlockOf(text, i), c) = s_NA

\* Where C8 and C9 hold and where they fail.  A list whose shown records all
\* have a str thesis is formatted as C8 says, except that the header of
\* find_similar_investors states no count; a shown record with a null thesis
\* makes len() raise, and the handler returns its error text; a column that is
\* absent is rendered "N/A", a column that is null is rendered "None".
FormatterBehaviour ==
    \A p \in Procs :
        Formatted(p)
            => LET list == Handed(call[p], fetched[p])
                   shown == Take(list, ShowCap)
                   text == result[p].text
               IN  IF \E i \in 1..Len(shown) : shown[i]["Investment thesis"].k = "null"
                   THEN result[p] = Return(ErrorText(call[p].op, TypeErrorLen), 0)
                   ELSE /\ result[p].kind = "return"
                        /\ text.t = "records"
                        /\ text.header.count
                               = (IF call[p].op = "find_similar_investors"
                                  THEN <<>> ELSE <<Len(list)>>)
                        /\ Len(text.blocks) = Len(shown)
                        /\ \A i \in 1..Len(shown) :
                              /\ BlockOf(text, i).ordinal = i
                              /\ \A c \in Columns :
                                    /\ list[i][c].k = "absent"
                                          => ShownFor(BlockOf(text, i), c) = s_NA
                                    /\ list[i][c].k = "null"
                                          => ShownFor(BlockOf(text, i), c) = s_None
                                    /\ (list[i][c].k = "str" /\ c # "Investment thesis")
                                          => ShownFor(BlockOf(text, i), c) = list[i][c].s
                        /\ text.more = (IF Len(list) > ShowCap
                                        THEN <<Len(list) - ShowCap>> ELSE <<>>)

\* The fetched records of slot p whose First cheque minimum is "9M" and whose
\* First cheque maximum is not empty.
NineM(p) ==
    {i \in 1..Len(fetched[p][1].data) :
        /\ fetched[p][1].data[i]["First cheque minimum"] = Str(s_9M)
        /\ Truthy(fetched[p][1].data[i]["First cheque maximum"])}

\* The cheque-size filter was called with min_amount "10M" and no max_amount,
\* and its fetch returned records.
TenMFilter(p) ==
    /\ Done(p, "find_investors_by_cheque_size")
    /\ call[p].min_amount = Str(s_10M)
    /\ ~Truthy(call[p].max_amount)
    /\ fetched[p][1].kind = "data"

\* C10 as stated: with min_amount "10M" and no max_amount, a record whose
\* First cheque minimum is "9M" is rejected: the output shows no such record.
C10_AsStated ==
    \A p \in Procs :
        (TenMFilter(p) /\ NineM(p) # {} /\ result[p].text.t = "records")
            => \A i \in 1..Len(result[p].text.blocks) :
                  result[p].text.blocks[i].cheque_min # s_9M

\* C10 amended: with min_amount "10M" and no max_amount, a record whose First
\* cheque minimum is "9M" (and whose maximum is not empty) is kept, because
\* "9m" is greater than "10m" in the lexicographic comparison of the filter:
\* the filter never answers "No investors found", and the list it formats
\* holds every such record.
C10_NineMKept ==
    \A p \in Procs :
        (TenMFilter(p) /\ NineM(p) # {})
            => LET data == fetched[p][1].data
                   kept == ChequeFiltered(call[p], data)
               IN  /\ \A i \in NineM(p) : \E j \in 1..Len(kept) : kept[j] = data[i]
                   /\ result[p].kind = "return"
                   /\ result[p].text.t \in {"records", "error"}
                   /\ result[p].text.t = "records"
                         => /\ result[p].text.header.count = <<Len(ChequeLimited(call[p], data))>>
                            /\ Len(ChequeLimited(call[p], data)) >= Cardinality(NineM(p))

\* C10 witness: the filter with min_amount "10M" has shown a record whose
\* First cheque minimum is "9M".
C10_Witness ==
    \E p \in Procs :
        /\ TenMFilter(p)
        /\ NineM(p) # {}
        /\ result[p].text.t = "records"
        /\ \E i \in 1..Len(result[p].text.blocks) :
              result[p].text.blocks[i].cheque_min = s_9M


(***************************************************************************)
(* Similarity scoring.                                                     *)
(***************************************************************************)
\* Slot p's find_similar_investors has ended after both fetches returned
\* records.
SimilarRan(p) ==
    /\ Done(p, "find_similar_investors")
    /\ Len(fetched[p]) = 2
    /\ fetched[p][2].kind = "data"
    /\ fetched[p][2].data # <<>>

\* The value a record holds for a column, None when the key is missing.
Held(r, c) == IF r[c].k = "absent" THEN Null ELSE r[c]

\* r is not a namesake of the queried investor, its type, stage and
\* countries each equal the target's, and its headquarters holds no
\* whitespace-delimited word of the target's headquarters.
Twin(target, name, r) ==
    /\ Held(r, "Investor name") # name
    /\ Held(r, "Investor type") = Held(target, "Investor type")
    /\ Held(r, "Stage of investment") = Held(target, "Stage of investment")
    /\ Held(r, "Countries of investment") = Held(target, "Countries of investment")
    /\ ~(/\ target["Global HQ"].k = "str"
         /\ r["Global HQ"].k = "str"
         /\ \E w \in {SplitWS(target["Global HQ"].s)[i] :
                         i \in 1..Len(SplitWS(target["Global HQ"].s))} :
                Contains(r["Global HQ"].s, w))

ThreeLabels == <<"same investor type", "same investment stage", "same investment countries">>

\* C11: in find_similar_investors a candidate that is not a namesake of the
\* target, whose type, stage and countries each equal the target's and whose
\* headquarters holds no word of the target's headquarters is retained with
\* score exactly 7 and the labels same investor type, same investment stage,
\* same investment countries, in that order; the output shows that score and
\* those labels for it.
C11_TwinScoresSeven ==
    \A p \in Procs :
        SimilarRan(p)
            => LET target == fetched[p][1].data[1]
                   data == fetched[p][2].data
                   ranked == Ranked(target, data, call[p].investor_name.s)
                   handed == Handed(call[p], fetched[p])
               IN  /\ \A i \in 1..Len(data) :
                         Twin(target, call[p].investor_name, data[i])
                             => \E j \in 1..Len(ranked) : ranked[j].investor = data[i]
                   /\ \A j \in 1..Len(ranked) :
                         Twin(target, call[p].investor_name, ranked[j].investor)
                             => /\ ranked[j].score = 7
                                /\ ranked[j].factors = ThreeLabels
                   /\ result[p].text.t = "records"
                         => \A j \in 1..Len(result[p].text.blocks) :
                               Twin(target, call[p].investor_name, handed[j])
                                   => /\ result[p].text.blocks[j].score = 7
                                      /\ result[p].text.blocks[j].factors = ThreeLabels

\* C11 witness: an output that shows two such candidates, one with a
\* headquarters of other words than the target's and one with a null
\* headquarters.
C11_Witness ==
    \E p \in Procs :
        /\ SimilarRan(p)
        /\ result[p].text.t = "records"
        /\ LET target == fetched[p][1].data[1]
               handed == Handed(call[p], fetched[p])
           IN  /\ target["Global HQ"].k = "str"
               /\ \E j, k \in 1..Len(result[p].text.blocks) :
                     /\ Twin(target, call[p].investor_name, handed[j])
                     /\ Twin(target, call[p].investor_name, handed[k])
                     /\ handed[j]["Global HQ"].k = "str"
                     /\ handed[j]["Global HQ"].s # <<>>
                     /\ handed[k]["Global HQ"].k = "null"
                     /\ result[p].text.blocks[j].score = 7
                     /\ result[p].text.blocks[k].score = 7


\* The ranked candidates of slot p's find_similar_investors after the
\* caller's limit: the first `limit` of them when a limit is given.
PostLimit(p) ==
    LET ranked == Ranked(fetched[p][1].data[1], fetched[p][2].data,
                         call[p].investor_name.s)
    IN  IF call[p].limit.k = "int" /\ call[p].limit.n > 0
        THEN SubSeq(ranked, 1, Min(call[p].limit.n, Len(ranked)))
        ELSE ranked

\* The output of slot p displays the first min(Len(post), 10) entries of
\* `post`, in order, and the "N more" tail, N = Len(post) - 10, exactly when
\* `post` has more than 10 entries.
Displays(p, post) ==
    /\ result[p].kind = "return"
    /\ result[p].text.t = "records"
    /\ Len(result[p].text.blocks) = Min(Len(post), 10)
    /\ \A j \in 1..Len(result[p].text.blocks) :
          /\ result[p].text.blocks[j].b.ordinal = j
          /\ result[p].text.blocks[j].score = post[j].score
          /\ post[j].investor["Investor name"].k = "str"
                => result[p].text.blocks[j].b.name = post[j].investor["Investor name"].s
    /\ result[p].text.more = (IF Len(post) > 10 THEN <<Len(post) - 10>> ELSE <<>>)

\* The per-record blocks and the tail of a returned text; none in a text
\* that is not a formatted record list.
BlocksIn(text) == IF text.t = "records" THEN text.blocks ELSE <<>>
TailIn(text) == IF text.t = "records" THEN text.more ELSE <<>>

\* C12 as stated: in find_similar_investors the ranked list is cut to its
\* first `limit` entries, at most 10 of those are displayed (so at most
\* min(limit, 10) blocks), and the "... and N more" tail appears iff the
\* post-limit count exceeds 10, with N = post-limit count - 10.
C12_AsStated ==
    \A p \in Procs :
        (SimilarRan(p) /\ PostLimit(p) # <<>>)
            => LET post == PostLimit(p)
                   blocks == BlocksIn(result[p].text)
               IN  /\ Len(blocks) <= Min(Len(post), 10)
                   /\ \A j \in 1..Len(blocks) : blocks[j].score = post[j].score
                   /\ (call[p].limit.k = "int" /\ call[p].limit.n > 0)
                         => Len(blocks) <= Min(call[p].limit.n, 10)
                   /\ TailIn(result[p].text)
                         = (IF Len(post) > 10 THEN <<Len(post) - 10>> ELSE <<>>)

\* Where C12 holds and where it fails: the two cuts compose as stated when
\* every displayed candidate's thesis is a string or absent; a displayed
\* candidate with a null thesis makes the handler return its error text, with
\* no block and no tail.
SimilarLimitBehaviour ==
    \A p \in Procs :
        (SimilarRan(p) /\ PostLimit(p) # <<>>)
            => LET post == PostLimit(p)
                   shown == SubSeq(post, 1, Min(Len(post), 10))
               IN  IF \E j \in 1..Len(shown) : shown[j].investor["Investment thesis"].k = "null"
                   THEN result[p] = Return(ErrorText("find_similar_investors", TypeErrorLen), 0)
                   ELSE /\ Displays(p, post)
                        /\ (call[p].limit.k = "int" /\ call[p].limit.n > 0)
                              => Len(result[p].text.blocks) <= Min(call[p].limit.n, 10)

\* A limit of 11 cuts a longer ranked list, and the output displays 10 blocks
\* and the tail "1 more".
SimilarLimitReached ==
    \E p \in Procs :
        /\ SimilarRan(p)
        /\ call[p].limit = Num(11)
        /\ Len(Ranked(fetched[p][1].data[1], fetched[p][2].data,
                      call[p].investor_name.s)) > 11
        /\ result[p].text.t = "records"
        /\ Len(result[p].text.blocks) = 10
        /\ result[p].text.more = <<1>>


(***************************************************************************)
(* Search criteria.                                                        *)
(***************************************************************************)
\* Slot p's search_investors_by_criteria has called the fetch.
Searched(p) ==
    /\ call[p].op = "search_investors_by_criteria"
    /\ Len(fetched[p]) = 1

\* The canonical value the table gives for an input: the value of the key
\* that equals the lower-cased input, or the input itself when there is none.
Canonical(mapping, raw) ==
    IF \E i \in 1..Len(mapping) : mapping[i][1] = Lower(raw)
    THEN mapping[CHOOSE i \in 1..Len(mapping) : mapping[i][1] = Lower(raw)][2]
    ELSE raw

\* C13: in search_investors_by_criteria an investor-type or country input
\* whose lower-cased form is a key of the corresponding table is filtered on
\* the table's canonical value, whatever the input's letter case; an input
\* whose lower-cased form is not a key is filtered on the input itself,
\* unchanged including its case.
C13_AliasNormalization ==
    \A p \in Procs :
        Searched(p)
            => LET filters == fetched[p][1].args.filters
                   type == call[p].investor_type
                   country == call[p].country
               IN  /\ (type.k = "str" /\ type.s # <<>>)
                         => /\ "Investor type" \in DOMAIN filters
                            /\ filters["Investor type"]
                                  = Canonical(investor_type_mapping, type.s)
                            /\ fetched[p][1].sent # <<>>
                                  => fetched[p][1].sent[1].filters["Investor type"]
                                        = Canonical(investor_type_mapping, type.s)
                   /\ (country.k = "str" /\ country.s # <<>>)
                         => /\ "Countries of investment" \in DOMAIN filters
                            /\ filters["Countries of investment"]
                                  = Canonical(country_mapping, country.s)
                            /\ fetched[p][1].sent # <<>>
                                  => fetched[p][1].sent[1].filters["Countries of investment"]
                                        = Canonical(country_mapping, country.s)

\* C13 witness: "Private Equity" and "Great BRITAIN" have been sent as "PE"
\* and "UK".
C13_Witness ==
    \E p \in Procs :
        /\ Searched(p)
        /\ call[p].investor_type = Str(s_PrivateEquity)
        /\ call[p].country = Str(s_GreatBritain)
        /\ fetched[p][1].sent # <<>>
        /\ fetched[p][1].sent[1].filters["Investor type"] = s_PE
        /\ fetched[p][1].sent[1].filters["Countries of investment"] = s_UK

\* An input that is no alias in any letter case, "Zed", has been sent as it
\* was typed.
UnmappedSentAsTyped ==
    \E p \in Procs :
        /\ Searched(p)
        /\ call[p].investor_type = Str(s_Zed)
        /\ fetched[p][1].sent # <<>>
        /\ fetched[p][1].sent[1].filters["Investor type"] = s_Zed


(***************************************************************************)
(* Thesis text.                                                            *)
(***************************************************************************)
\* Slot p's invocation has ended with a formatted record list.
Emitted(p) == Formatted(p) /\ result[p].kind = "return" /\ result[p].text.t = "records"

\* The thesis text of the j-th block of slot p's output, and the thesis the
\* j-th record handed to the formatter holds.
ThesisText(p, j) == BlockOf(result[p].text, j).thesis
ThesisHeld(p, j) == Handed(call[p], fetched[p])[j]["Investment thesis"]

\* C14: for a thesis string of length L the thesis text the formatter emits
\* is the string itself when L <= 100, and the first 100 characters followed
\* by a 3-character ellipsis, 103 characters in all, when L > 100.
C14_Truncation ==
    \A p \in Procs :
        Emitted(p)
            => \A j \in 1..Len(result[p].text.blocks) :
                  ThesisHeld(p, j).k = "str"
                      => LET thesis == ThesisHeld(p, j).s
                             text == ThesisText(p, j)
                         IN  IF Len(thesis) <= 100
                             THEN text = thesis /\ Len(text) = Len(thesis)
                             ELSE /\ Len(text) = 103
                                  /\ \A i \in 1..100 : text[i] = thesis[i]
                                  /\ \A i \in 101..103 : text[i] = 46

\* C14 witness: one output holds a thesis of exactly 100 characters emitted
\* whole and a thesis of 101 characters emitted as 103.
C14_Witness ==
    \E p \in Procs :
        /\ Emitted(p)
        /\ \E j, k \in 1..Len(result[p].text.blocks) :
              /\ ThesisHeld(p, j).k = "str"
              /\ Len(ThesisHeld(p, j).s) = 100
              /\ Len(ThesisText(p, j)) = 100
              /\ ThesisHeld(p, k).k = "str"
              /\ Len(ThesisHeld(p, k).s) = 101
              /\ Len(ThesisText(p, k)) = 103

\* C17 as stated: the formatter never emits thesis text longer than 100
\* characters, for any record, in any operation that formats records.
C17_AsStated ==
    \A p \in Procs :
        Emitted(p)
            => \A j \in 1..Len(result[p].text.blocks) : Len(ThesisText(p, j)) <= 100

\* C17 amended: the formatter never emits more than 100 characters of a
\* thesis; the thesis text is at most 103 characters long, and when it is
\* longer than 100 it is 100 characters of a longer thesis and the ellipsis.
C17_ThesisBounded ==
    \A p \in Procs :
        Emitted(p)
            => \A j \in 1..Len(result[p].text.blocks) :
                  LET text == ThesisText(p, j)
                  IN  /\ Len(text) <= 103
                      /\ Len(text) > 100
                            => /\ Len(text) = 103
                               /\ SubSeq(text, 101, 103) = <<46, 46, 46>>
                               /\ ThesisHeld(p, j).k = "str"
                               /\ Len(ThesisHeld(p, j).s) > 100
                               /\ SubSeq(text, 1, 100) = SubSeq(ThesisHeld(p, j).s, 1, 100)

\* C17 witness: a thesis of more than 200 characters has been emitted as 103
\* characters, by find_similar_investors.
C17_Witness ==
    \E p \in Procs :
        /\ Emitted(p)
        /\ call[p].op = "find_similar_investors"
        /\ \E j \in 1..Len(result[p].text.blocks) :
              /\ ThesisHeld(p, j).k = "str"
              /\ Len(ThesisHeld(p, j).s) > 200
              /\ Len(ThesisText(p, j)) = 103


(***************************************************************************)
(* Frequency reports.                                                      *)
(***************************************************************************)
\* Slot p's invocation of `op` has ended after its fetch returned records.
Aggregated(p, op) ==
    /\ Done(p, op)
    /\ Len(fetched[p]) = 1
    /\ fetched[p][1].kind = "data"
    /\ fetched[p][1].data # <<>>

\* The records that hold a non-empty value for a column.
NonEmpty(data, c) ==
    {i \in 1..Len(data) : data[i][c].k = "str" /\ data[i][c].s # <<>>}

\* The sum of the counts of a sequence of entries or of report lines.
RECURSIVE CountSum(_)
CountSum(entries) ==
    IF entries = <<>> THEN 0 ELSE entries[1].n + CountSum(Tail(entries))

\* C15: the per-value counts of a single-valued field (stage, type) sum to the
\* number of records with a non-empty value for the field; the per-token
\* counts of the comma-split countries field sum to at least the number of
\* records with a non-empty countries value.
C15_FrequencySums ==
    \A p \in Procs :
        /\ Aggregated(p, "analyze_investment_stages")
              => LET data == fetched[p][1].data
                     with == Cardinality(NonEmpty(data, "Stage of investment"))
                 IN  /\ CountSum(stage_counts(data)) = with
                     /\ result[p].text.t = "stage_analysis"
                           => /\ CountSum(result[p].text.lines) = with
                              /\ result[p].text.total = with
        /\ Aggregated(p, "get_investor_statistics")
              => LET data == fetched[p][1].data
                     text == result[p].text
                 IN  /\ CountSum(type_counts(data))
                           = Cardinality(NonEmpty(data, "Investor type"))
                     /\ CountSum(stage_counts(data))
                           = Cardinality(NonEmpty(data, "Stage of investment"))
                     /\ CountSum(country_counts(data))
                           >= Cardinality(NonEmpty(data, "Countries of investment"))
                     /\ Len(type_counts(data)) <= 5
                           => CountSum(text.types)
                                 = Cardinality(NonEmpty(data, "Investor type"))
                     /\ Len(stage_counts(data)) <= 5
                           => CountSum(text.stages)
                                 = Cardinality(NonEmpty(data, "Stage of investment"))
                     /\ Len(country_counts(data)) <= 5
                           => CountSum(text.countries)
                                 >= Cardinality(NonEmpty(data, "Countries of investment"))

\* C15 witness: statistics over records of which some hold no type, some no
\* stage, and whose country tokens are more than the records that hold
\* countries.
C15_Witness ==
    \E p \in Procs :
        /\ Aggregated(p, "get_investor_statistics")
        /\ LET data == fetched[p][1].data
           IN  /\ 0 < Cardinality(NonEmpty(data, "Investor type"))
               /\ Cardinality(NonEmpty(data, "Investor type")) < Len(data)
               /\ Cardinality(NonEmpty(data, "Stage of investment")) < Len(data)
               /\ CountSum(result[p].text.types)
                     = Cardinality(NonEmpty(data, "Investor type"))
               /\ CountSum(result[p].text.countries)
                     > Cardinality(NonEmpty(data, "Countries of investment"))

\* pct, in tenths of a percent, is count / total rounded to one decimal.
IsShare(pct, count, total) ==
    /\ total > 0
    /\ 2 * (pct * total - 1000 * count) <= total
    /\ 2 * (1000 * count - pct * total) <= total

\* C16 as stated: in the stage distribution and in the type, stage and country
\* sections of the statistics, records with a missing or empty value for the
\* field do not count toward the total, and each value's percentage is its
\* count divided by the non-missing total for the field.
C16_AsStated ==
    \A p \in Procs :
        /\ (Aggregated(p, "analyze_investment_stages") /\ result[p].text.t = "stage_analysis")
              => LET data == fetched[p][1].data
                     lines == result[p].text.lines
                 IN  \A i \in 1..Len(lines) :
                        IsShare(lines[i].pct, lines[i].n,
                                Cardinality(NonEmpty(data, "Stage of investment")))
        /\ Aggregated(p, "get_investor_statistics")
              => LET data == fetched[p][1].data
                     text == result[p].text
                 IN  /\ \A i \in 1..Len(text.types) :
                           IsShare(text.types[i].pct, text.types[i].n,
                                   Cardinality(NonEmpty(data, "Investor type")))
                     /\ \A i \in 1..Len(text.stages) :
                           IsShare(text.stages[i].pct, text.stages[i].n,
                                   Cardinality(NonEmpty(data, "Stage of investment")))
                     /\ \A i \in 1..Len(text.countries) :
                           \/ IsShare(text.countries[i].pct, text.countries[i].n,
                                      Cardinality(NonEmpty(data, "Countries of investment")))
                           \/ IsShare(text.countries[i].pct, text.countries[i].n,
                                      CountSum(country_counts(data)))

\* Where C16 holds and where it fails: the stage distribution divides by the
\* number of records that hold a stage; the three sections of the statistics
\* divide by the number of all fetched records, those without a value for the
\* field included.
ShareBehaviour ==
    \A p \in Procs :
        /\ (Aggregated(p, "analyze_investment_stages") /\ result[p].text.t = "stage_analysis")
              => LET data == fetched[p][1].data
                     lines == result[p].text.lines
                 IN  \A i \in 1..Len(lines) :
                        IsShare(lines[i].pct, lines[i].n,
                                Cardinality(NonEmpty(data, "Stage of investment")))
        /\ Aggregated(p, "get_investor_statistics")
              => LET data == fetched[p][1].data
                     text == result[p].text
                 IN  /\ text.total = Len(data)
                     /\ \A i \in 1..Len(text.types) :
                           IsShare(text.types[i].pct, text.types[i].n, Len(data))
                     /\ \A i \in 1..Len(text.stages) :
                           IsShare(text.stages[i].pct, text.stages[i].n, Len(data))
                     /\ \A i \in 1..Len(text.countries) :
                           IsShare(text.countries[i].pct, text.countries[i].n, Len(data))


\* Where a key first occurs among the counted values of a column: the record,
\* and for the comma-split countries the piece within the record, as one
\* number that grows with the order of occurrence.
FirstSeen(data, c, key, split) ==
    LET Keys(i) == IF data[i][c].k = "str" /\ data[i][c].s # <<>>
                   THEN (IF split THEN CountryKeys(data[i][c].s) ELSE <<data[i][c].s>>)
                   ELSE <<>>
        at == {<<i, k>> \in (1..Len(data)) \X (1..8) :
                  k <= Len(Keys(i)) /\ Keys(i)[k] = key}
        first == CHOOSE a \in at : \A b \in at :
                    a[1] < b[1] \/ (a[1] = b[1] /\ a[2] <= b[2])
    IN  IF at = {} THEN 0 ELSE first[1] * 10 + first[2]

\* The lines are in non-increasing count order, lines of equal count in the
\* order of first occurrence of their keys.
Ordered(lines, data, c, split) ==
    \A i, j \in 1..Len(lines) :
        i < j => /\ lines[i].n >= lines[j].n
                 /\ FirstSeen(data, c, lines[i].key, split) > 0
                 /\ lines[i].n = lines[j].n
                       => FirstSeen(data, c, lines[i].key, split)
                             < FirstSeen(data, c, lines[j].key, split)

\* C20: the stage distribution and the type, stage and country sections of
\* the statistics list their entries in non-increasing count order, entries
\* of equal count in the order of first occurrence of their value in the
\* fetched records; for types VC, VC, Angel network the type section is
\* VC (2), then Angel network (1).
C20_FrequencyOrder ==
    \A p \in Procs :
        /\ (Aggregated(p, "analyze_investment_stages") /\ result[p].text.t = "stage_analysis")
              => Ordered(result[p].text.lines, fetched[p][1].data,
                         "Stage of investment", FALSE)
        /\ Aggregated(p, "get_investor_statistics")
              => LET data == fetched[p][1].data
                     text == result[p].text
                 IN  /\ Ordered(text.types, data, "Investor type", FALSE)
                     /\ Ordered(text.stages, data, "Stage of investment", FALSE)
                     /\ Ordered(text.countries, data, "Countries of investment", TRUE)
                     /\ (/\ Len(data) = 3
                         /\ data[1]["Investor type"] = Str(s_VC)
                         /\ data[2]["Investor type"] = Str(s_VC)
                         /\ data[3]["Investor type"] = Str(s_AngelNetwork))
                           => /\ Len(text.types) = 2
                              /\ text.types[1].key = s_VC
                              /\ text.types[1].n = 2
                              /\ text.types[2].key = s_AngelNetwork
                              /\ text.types[2].n = 1

\* C20 witness: the statistics of three records of types VC, VC, Angel
\* network rank VC (2, 66.7%) before Angel network (1, 33.3%).
C20_Witness ==
    \E p \in Procs :
        /\ Aggregated(p, "get_investor_statistics")
        /\ Len(fetched[p][1].data) = 3
        /\ fetched[p][1].data[1]["Investor type"] = Str(s_VC)
        /\ fetched[p][1].data[2]["Investor type"] = Str(s_VC)
        /\ fetched[p][1].data[3]["Investor type"] = Str(s_AngelNetwork)
        /\ result[p].text.types
              = <<[key |-> s_VC, n |-> 2, pct |-> 667],
                  [key |-> s_AngelNetwork, n |-> 1, pct |-> 333]>>

\* A report has listed two values of equal count, and a value of greater
\* count that first occurs after another listed value.
TieAndOvertakeListed ==
    \E p \in Procs :
        /\ Aggregated(p, "get_investor_statistics")
        /\ \E i, j \in 1..Len(result[p].text.types) :
              /\ i < j
              /\ result[p].text.types[i].n = result[p].text.types[j].n
        /\ \E i, j \in 1..Len(result[p].text.countries) :
              /\ i < j
              /\ result[p].text.countries[i].n > result[p].text.countries[j].n
              /\ FirstSeen(fetched[p][1].data, "Countries of investment",
                           result[p].text.countries[i].key, TRUE)
                    > FirstSeen(fetched[p][1].data, "Countries of investment",
                                result[p].text.countries[j].key, TRUE)


(***************************************************************************)
(* Cheque-range filter.                                                    *)
(***************************************************************************)
\* Slot p's find_investors_by_cheque_size has ended after its fetch returned
\* records.
ChequeRan(p) == Aggregated(p, "find_investors_by_cheque_size")

\* An argument or a field is supplied: a non-empty string.
Supplied(v) == v.k = "str" /\ v.s # <<>>

\* a < b in the lexicographic order of strings: at the first position where
\* they differ a has the smaller character, or a is a proper prefix of b.
LexLess(a, b) ==
    \E k \in 1..(Len(a) + 1) :
        /\ k <= Len(b)
        /\ \A i \in 1..(k - 1) : a[i] = b[i]
        /\ k = Len(a) + 1 \/ a[k] < b[k]

\* The filter rule: the record holds both cheque fields, and is rejected by
\* neither bound.
PassesCheque(r, min_amount, max_amount) ==
    /\ Supplied(r["First cheque minimum"])
    /\ Supplied(r["First cheque maximum"])
    /\ ~(/\ Supplied(min_amount)
         /\ LexLess(Lower(r["First cheque minimum"].s), Lower(min_amount.s)))
    /\ ~(/\ Supplied(max_amount)
         /\ LexLess(Lower(max_amount.s), Lower(r["First cheque maximum"].s)))

\* C18: the cheque-range filter drops every record with a missing or empty
\* First cheque minimum or maximum, also when neither bound is supplied; it
\* rejects a record with both fields iff min_amount is supplied and
\* lower(record minimum) < lower(min_amount), or max_amount is supplied and
\* lower(record maximum) > lower(max_amount), as strings in lexicographic
\* order, never as numbers; the kept records are in fetch order.
C18_ChequeRule ==
    \A p \in Procs :
        ChequeRan(p)
            => LET data == fetched[p][1].data
                   c == call[p]
                   passing == SelectSeq(data, LAMBDA r :
                                  PassesCheque(r, c.min_amount, c.max_amount))
                   cut == IF c.limit.k = "int" /\ c.limit.n > 0
                          THEN SubSeq(passing, 1, Min(c.limit.n, Len(passing)))
                          ELSE passing
               IN  /\ ChequeFiltered(c, data) = passing
                   /\ (passing = <<>>) = (result[p].text.t = "no_match")
                   /\ result[p].text.t = "records"
                         => /\ result[p].text.header.count = <<Len(cut)>>
                            /\ Len(result[p].text.blocks) = Min(Len(cut), 10)
                            /\ \A j \in 1..Len(result[p].text.blocks) :
                                  /\ result[p].text.blocks[j].cheque_min
                                        = cut[j]["First cheque minimum"].s
                                  /\ result[p].text.blocks[j].cheque_max
                                        = cut[j]["First cheque maximum"].s
                                  /\ cut[j]["Investor name"].k = "str"
                                        => result[p].text.blocks[j].name
                                              = cut[j]["Investor name"].s

\* C18 witness: with min_amount "1m" and no maximum, the output keeps a
\* record of minimum "1M" and one of minimum "9M" in fetch order, while the
\* fetch also returned a record of minimum "100k" and a record without a
\* maximum.
C18_Witness ==
    \E p \in Procs :
        /\ ChequeRan(p)
        /\ call[p].min_amount = Str(s_1m)
        /\ result[p].text.t = "records"
        /\ \E j, k \in 1..Len(result[p].text.blocks) :
              /\ j < k
              /\ result[p].text.blocks[j].cheque_min = s_9M
              /\ result[p].text.blocks[k].cheque_min = s_1M
        /\ \E i \in 1..Len(fetched[p][1].data) :
              fetched[p][1].data[i]["First cheque minimum"] = Str(s_100k)
        /\ \E i \in 1..Len(fetched[p][1].data) :
              ~Supplied(fetched[p][1].data[i]["First cheque maximum"])

\* With no bound supplied, records without a cheque field have been dropped
\* and the others kept.
UnboundedDrops ==
    \E p \in Procs :
        /\ ChequeRan(p)
        /\ ~Supplied(call[p].min_amount)
        /\ ~Supplied(call[p].max_amount)
        /\ result[p].text.t = "records"
        /\ Len(ChequeFiltered(call[p], fetched[p][1].data)) < Len(fetched[p][1].data)


(***************************************************************************)
(* Similarity ranking.                                                     *)
(***************************************************************************)
\* The records of a ranked list, in its order.
InvestorsOf(items) == [j \in 1..Len(items) |-> items[j].investor]

\* C19: in find_similar_investors every candidate whose Investor name equals
\* the queried name is excluded, all of them and not only the first; every
\* other candidate of score 0 is dropped; the retained candidates are in
\* non-increasing score order, candidates of equal score in the order in
\* which the candidate fetch returned them.
C19_Ranking ==
    \A p \in Procs :
        SimilarRan(p)
            => LET target == fetched[p][1].data[1]
                   data == fetched[p][2].data
                   name == call[p].investor_name
                   ranked == Ranked(target, data, name.s)
               IN  /\ \A j \in 1..Len(ranked) :
                         /\ Held(ranked[j].investor, "Investor name") # name
                         /\ ranked[j].score > 0
                         /\ ranked[j].score = Scored(target, ranked[j].investor).score
                   /\ \A j, k \in 1..Len(ranked) :
                         j < k => ranked[j].score >= ranked[k].score
                   /\ \A s \in 1..8 :
                         InvestorsOf(SelectSeq(ranked, LAMBDA x : x.score = s))
                            = SelectSeq(data, LAMBDA r :
                                  /\ Held(r, "Investor name") # name
                                  /\ Scored(target, r).score = s)
                   /\ (result[p].text.t = "records" /\ ~Truthy(call[p].limit))
                         => \A j \in 1..Len(result[p].text.blocks) :
                               /\ result[p].text.blocks[j].score = ranked[j].score
                               /\ ranked[j].investor["Investor name"].k = "str"
                                     => result[p].text.blocks[j].b.name
                                           = ranked[j].investor["Investor name"].s

\* C19 witness: the output lists two different candidates of equal score in
\* fetch order, both before a candidate of smaller score that the fetch
\* returned between them.
C19_Witness ==
    \E p \in Procs :
        /\ SimilarRan(p)
        /\ ~Truthy(call[p].limit)
        /\ result[p].text.t = "records"
        /\ LET data == fetched[p][2].data
               blocks == result[p].text.blocks
           IN  \E i, j, k \in 1..Len(blocks) :
                  /\ i < j /\ j < k
                  /\ blocks[i].score = blocks[j].score
                  /\ blocks[j].score > blocks[k].score
                  /\ blocks[i].b.name # blocks[j].b.name
                  /\ \E a, b, c \in 1..Len(data) :
                        /\ a < c /\ c < b
                        /\ data[a]["Investor name"] = Str(blocks[i].b.name)
                        /\ data[c]["Investor name"] = Str(blocks[k].b.name)
                        /\ data[b]["Investor name"] = Str(blocks[j].b.name)

\* The candidate fetch returned two namesakes of the target and both were
\* excluded, and a candidate of score 0 was dropped.
NamesakesExcluded ==
    \E p \in Procs :
        /\ SimilarRan(p)
        /\ result[p].text.t = "records"
        /\ LET data == fetched[p][2].data
               ranked == Ranked(fetched[p][1].data[1], data, call[p].investor_name.s)
           IN  /\ Cardinality({i \in 1..Len(data) :
                                  data[i]["Investor name"] = call[p].investor_name}) >= 2
               /\ \E i \in 1..Len(data) :
                     /\ data[i]["Investor name"] # call[p].investor_name
                     /\ \A j \in 1..Len(ranked) : ranked[j].investor # data[i]


\* The column a criterion of search_investors_by_criteria filters on.
CriterionColumn ==
    [investor_type |-> "Investor type", stage |-> "Stage of investment",
     country |-> "Countries of investment", hq_location |-> "Global HQ"]

EmptyCriteriaUnfiltered ==
    \E p \in Procs :
        /\ Searched(p)
        /\ call[p].investor_type = Str(<<>>)
        /\ fetched[p][1].kind = "data"
        /\ fetched[p][1].sent[1].filters = NoFilters
        /\ fetched[p][1].data = table
        /\ table # <<>>


(***************************************************************************)
(* Thesis themes.                                                          *)
(***************************************************************************)
\* needle occurs in hay at some position.
Occurs(needle, hay) ==
    \E i \in 1..Len(hay) :
        \A k \in 1..Len(needle) : i + k - 1 <= Len(hay) /\ hay[i + k - 1] = needle[k]

\* The records that hold non-empty thesis text, and those of them whose
\* thesis is not the placeholder "N/A".
WithThesis(data) == NonEmpty(data, "Investment thesis")
UsableThesis(data) ==
    {i \in WithThesis(data) : data[i]["Investment thesis"].s # <<78, 47, 65>>}

\* The number of usable records whose thesis holds the keyword, letter case
\* aside.
Mentions(data, keyword) ==
    Cardinality({i \in UsableThesis(data) :
                    Occurs(Lower(keyword), Lower(data[i]["Investment thesis"].s))})

\* The keywords of the fixed list.
Keywords == {common_keywords[i] : i \in 1..Len(common_keywords)}

\* The theme lines report keywords with their counts, none with count 0, in
\* non-increasing count order, the 10 of greatest count at most.
ThemesReported(lines, data) ==
    /\ \A i \in 1..Len(lines) :
          /\ lines[i].key \in Keywords
          /\ lines[i].n = Mentions(data, lines[i].key)
          /\ lines[i].n > 0
    /\ \A i, j \in 1..Len(lines) :
          i < j => lines[i].n >= lines[j].n /\ lines[i].key # lines[j].key
    /\ Len(lines) <= 10
    /\ Len(lines) = Min(10, Cardinality({k \in Keywords : Mentions(data, k) > 0}))
    /\ \A k \in Keywords :
          (\A i \in 1..Len(lines) : lines[i].key # k)
              => \A i \in 1..Len(lines) : Mentions(data, k) <= lines[i].n

\* C22 as stated: in analyze_investment_thesis a keyword's count is the number
\* of records with usable thesis text whose thesis contains it as a
\* case-insensitive substring; keywords of count 0 are not reported; the
\* reported keywords are in non-increasing count order, at most 10; each
\* percentage is the count divided by the number of records that had non-empty
\* thesis text.
C22_AsStated ==
    \A p \in Procs :
        (Aggregated(p, "analyze_investment_thesis") /\ WithThesis(fetched[p][1].data) # {})
            => LET data == fetched[p][1].data
               IN  /\ result[p].text.t = "thesis_analysis"
                   /\ ThemesReported(result[p].text.themes, data)
                   /\ \A i \in 1..Len(result[p].text.themes) :
                         IsShare(result[p].text.themes[i].pct, result[p].text.themes[i].n,
                                 Cardinality(WithThesis(data)))

\* C22 amended: as stated, with the percentage being the count divided by the
\* number of records whose thesis is non-empty and is not the placeholder
\* "N/A", which is the total the report states; a record whose thesis is
\* "N/A" counts for no keyword and not toward that number.
C22_ThemeScan ==
    \A p \in Procs :
        Aggregated(p, "analyze_investment_thesis")
            => LET data == fetched[p][1].data
               IN  IF UsableThesis(data) = {}
                   THEN result[p] = Return(Literal("No investment thesis data found."), 0)
                   ELSE /\ result[p].text.t = "thesis_analysis"
                        /\ result[p].text.total = Cardinality(UsableThesis(data))
                        /\ ThemesReported(result[p].text.themes, data)
                        /\ \A i \in 1..Len(result[p].text.themes) :
                              IsShare(result[p].text.themes[i].pct,
                                      result[p].text.themes[i].n,
                                      Cardinality(UsableThesis(data)))

\* C22 witness: of twelve keywords found the report lists 10, two of count 2
\* first, over a table that also holds an "N/A" thesis.
C22_Witness ==
    \E p \in Procs :
        /\ Aggregated(p, "analyze_investment_thesis")
        /\ result[p].text.t = "thesis_analysis"
        /\ LET data == fetched[p][1].data
               lines == result[p].text.themes
           IN  /\ Cardinality({k \in Keywords : Mentions(data, k) > 0}) > 10
               /\ Len(lines) = 10
               /\ lines[1].n = 2
               /\ lines[10].n = 1
               /\ lines[1].pct = 1000

\* The report over one usable thesis and one "N/A" thesis gives 100.0%.
PlaceholderNotCounted ==
    \E p \in Procs :
        /\ Aggregated(p, "analyze_investment_thesis")
        /\ result[p].text.t = "thesis_analysis"
        /\ Cardinality(WithThesis(fetched[p][1].data)) = 2
        /\ result[p].text.total = 1
        /\ \A i \in 1..Len(result[p].text.themes) : result[p].text.themes[i].pct = 1000


(***************************************************************************)
(* Percentages.                                                            *)
(***************************************************************************)
\* A percentage, in tenths of a percent, between 0 and 100.
InRange(pct) == 0 <= pct /\ pct <= 1000

\* C23 as stated: every percentage printed by analyze_investment_stages,
\* analyze_investment_thesis and get_investor_statistics (type, stage, country
\* and cheque-coverage lines) lies between 0 and 100 inclusive, for every
\* non-empty record set, also when a countries value repeats a token.
C23_AsStated ==
    \A p \in Procs :
        /\ (Aggregated(p, "analyze_investment_stages") /\ result[p].text.t = "stage_analysis")
              => \A i \in 1..Len(result[p].text.lines) : InRange(result[p].text.lines[i].pct)
        /\ (Aggregated(p, "analyze_investment_thesis") /\ result[p].text.t = "thesis_analysis")
              => \A i \in 1..Len(result[p].text.themes) : InRange(result[p].text.themes[i].pct)
        /\ Aggregated(p, "get_investor_statistics")
              => LET text == result[p].text
                 IN  /\ \A i \in 1..Len(text.types) : InRange(text.types[i].pct)
                     /\ \A i \in 1..Len(text.stages) : InRange(text.stages[i].pct)
                     /\ \A i \in 1..Len(text.countries) : InRange(text.countries[i].pct)
                     /\ \A i \in 1..Len(text.cheque) : InRange(text.cheque[i].pct)

\* A countries value of the records holds the same token twice.
RepeatsToken(data) ==
    \E i \in NonEmpty(data, "Countries of investment") :
        LET keys == CountryKeys(data[i]["Countries of investment"].s)
        IN  \E a, b \in 1..Len(keys) : a < b /\ keys[a] = keys[b]

\* Where C23 holds and where it fails: every percentage is between 0 and 100
\* except those of the country section of the statistics when a countries
\* value repeats a token; then a country's count can exceed the number of
\* records.
PercentBehaviour ==
    \A p \in Procs :
        /\ (Aggregated(p, "analyze_investment_stages") /\ result[p].text.t = "stage_analysis")
              => \A i \in 1..Len(result[p].text.lines) : InRange(result[p].text.lines[i].pct)
        /\ (Aggregated(p, "analyze_investment_thesis") /\ result[p].text.t = "thesis_analysis")
              => \A i \in 1..Len(result[p].text.themes) : InRange(result[p].text.themes[i].pct)
        /\ Aggregated(p, "get_investor_statistics")
              => LET text == result[p].text
                 IN  /\ \A i \in 1..Len(text.types) : InRange(text.types[i].pct)
                     /\ \A i \in 1..Len(text.stages) : InRange(text.stages[i].pct)
                     /\ \A i \in 1..Len(text.cheque) : InRange(text.cheque[i].pct)
                     /\ ~RepeatsToken(fetched[p][1].data)
                           => \A i \in 1..Len(text.countries) : InRange(text.countries[i].pct)

\* The statistics of the one record with countries "USA,USA" print 200.0%.
TwoHundredPercent ==
    \E p \in Procs :
        /\ Aggregated(p, "get_investor_statistics")
        /\ Len(fetched[p][1].data) = 1
        /\ result[p].text.countries = <<[key |-> s_USA, n |-> 2, pct |-> 2000]>>


(***************************************************************************)
(* Country names of the listing and country keys of the statistics.        *)
(***************************************************************************)
\* The tokens of a countries value: the pieces between its commas, the whole
\* value when it holds no comma.
Tokens(value) ==
    LET pieces == SplitOn(value, 44) IN {pieces[i] : i \in 1..Len(pieces)}

\* The trimmed tokens of the countries values of the records.
TrimmedTokens(data) ==
    UNION {{Strip(t) : t \in Tokens(data[i]["Countries of investment"].s)} :
              i \in NonEmpty(data, "Countries of investment")}

\* The keys get_investor_statistics counted, and those it printed.
CountedKeys(data) ==
    {country_counts(data)[i].key : i \in 1..Len(country_counts(data))}
PrintedKeys(text) == {text.countries[i].key : i \in 1..Len(text.countries)}

\* The names get_available_countries listed.
ListedNames(text) == {text.items[i] : i \in 1..Len(text.items)}

\* C24 as stated: for every table content the set of country names listed by
\* get_available_countries equals the set of country keys counted by
\* get_investor_statistics, both being the comma-split, trimmed tokens of the
\* countries values, also of a value that holds no comma.
C24_AsStated ==
    \A p \in Procs :
        /\ (Aggregated(p, "get_available_countries") /\ result[p].text.t = "listing")
              => ListedNames(result[p].text) = TrimmedTokens(fetched[p][1].data)
        /\ Aggregated(p, "get_investor_statistics")
              => /\ CountedKeys(fetched[p][1].data) = TrimmedTokens(fetched[p][1].data)
                 /\ PrintedKeys(result[p].text) \subseteq TrimmedTokens(fetched[p][1].data)

\* Where C24 holds and where it fails: the listing holds exactly the trimmed
\* tokens; the statistics count the trimmed tokens of the values that hold a
\* comma and the untrimmed value of those that hold none, so the two sets
\* agree once the keys of the statistics are trimmed.
CountryBehaviour ==
    \A p \in Procs :
        /\ (Aggregated(p, "get_available_countries") /\ result[p].text.t = "listing")
              => ListedNames(result[p].text) = TrimmedTokens(fetched[p][1].data)
        /\ Aggregated(p, "get_investor_statistics")
              => LET data == fetched[p][1].data
                 IN  /\ {Strip(k) : k \in CountedKeys(data)} = TrimmedTokens(data)
                     /\ PrintedKeys(result[p].text) \subseteq CountedKeys(data)
                     /\ \A i \in NonEmpty(data, "Countries of investment") :
                            LET value == data[i]["Countries of investment"].s
                            IN  44 \notin {value[j] : j \in 1..Len(value)}
                                    => value \in CountedKeys(data)

\* The statistics print the key " USA" for a record whose countries value is
\* " USA"; the listing of the same records names "USA".
UntrimmedKeyPrinted ==
    \E p \in Procs :
        /\ Aggregated(p, "get_investor_statistics")
        /\ s_spUSA \in PrintedKeys(result[p].text)
        /\ s_spUSA \notin TrimmedTokens(fetched[p][1].data)
        /\ s_USA \in TrimmedTokens(fetched[p][1].data)


(***************************************************************************)
(* Similarity scoring on raw field values.                                 *)
(***************************************************************************)
FourLabels == ThreeLabels \o <<"similar HQ location">>

\* The column a label compares, and the points it is worth.
LabelColumn(l) ==
    CASE l = "same investor type" -> "Investor type"
      [] l = "same investment stage" -> "Stage of investment"
      [] l = "same investment countries" -> "Countries of investment"
      [] l = "similar HQ location" -> "Global HQ"

LabelPoints(l) ==
    CASE l = "same investor type" -> TypeWeight
      [] l = "same investment stage" -> StageWeight
      [] l = "same investment countries" -> CountriesWeight
      [] l = "similar HQ location" -> HqWeight

RECURSIVE PointsOf(_)
PointsOf(labels) ==
    IF labels = <<>> THEN 0 ELSE LabelPoints(Head(labels)) + PointsOf(Tail(labels))

\* The score and labels x fit the candidate r of the target: the type, stage
\* and countries labels are there exactly when the raw values are equal, two
\* missing values included; the headquarters label only when both
\* headquarters are non-empty; the labels are in the fixed order and the score
\* is the sum of their points, between 1 and 8.
Fits(x, target, r) ==
    LET has(l) == \E i \in 1..Len(x.factors) : x.factors[i] = l
    IN  /\ \A i \in 1..3 :
              has(ThreeLabels[i])
                  <=> Held(r, LabelColumn(ThreeLabels[i])) = Held(target, LabelColumn(ThreeLabels[i]))
        /\ has("similar HQ location")
              => /\ Held(target, "Global HQ").k = "str" /\ Held(target, "Global HQ").s # <<>>
                 /\ Held(r, "Global HQ").k = "str" /\ Held(r, "Global HQ").s # <<>>
        /\ x.factors = SelectSeq(FourLabels, has)
        /\ x.score = PointsOf(x.factors)
        /\ x.score \in 1..8

\* C25: find_similar_investors compares type, stage and countries on the raw
\* field values, so a field missing in both the target and a candidate is a
\* match and earns its points and label (3, 2, 2), whereas the headquarters
\* point is earned only when both headquarters are non-empty; every retained
\* candidate has a score in 1..8 equal to the sum of the weights of its labels,
\* and its labels are a subsequence of same investor type, same investment
\* stage, same investment countries, similar HQ location.
C25_RawValueScoring ==
    \A p \in Procs :
        SimilarRan(p)
            => LET target == fetched[p][1].data[1]
                   ranked == Ranked(target, fetched[p][2].data, call[p].investor_name.s)
                   handed == Handed(call[p], fetched[p])
                   data == fetched[p][2].data
               IN  /\ \A i \in 1..Len(data) :
                         (/\ Held(data[i], "Investor name") # call[p].investor_name
                          /\ \E k \in 1..3 :
                                Held(data[i], LabelColumn(ThreeLabels[k]))
                                   = Held(target, LabelColumn(ThreeLabels[k])))
                             => \E j \in 1..Len(ranked) : ranked[j].investor = data[i]
                   /\ \A j \in 1..Len(ranked) : Fits(ranked[j], target, ranked[j].investor)
                   /\ result[p].text.t = "records"
                         => \A j \in 1..Len(result[p].text.blocks) :
                               Fits(result[p].text.blocks[j], target, handed[j])

\* C25 witness: the output shows a candidate with score 5 and the type and
\* stage labels, its type and stage missing like the target's, and no
\* headquarters label, both headquarters missing.
C25_Witness ==
    \E p \in Procs :
        /\ SimilarRan(p)
        /\ result[p].text.t = "records"
        /\ LET target == fetched[p][1].data[1]
               handed == Handed(call[p], fetched[p])
           IN  \E j \in 1..Len(result[p].text.blocks) :
                  /\ Held(target, "Investor type") = Null
                  /\ Held(handed[j], "Investor type") = Null
                  /\ Held(target, "Stage of investment") = Null
                  /\ Held(handed[j], "Stage of investment") = Null
                  /\ Held(target, "Global HQ") = Null
                  /\ Held(handed[j], "Global HQ") = Null
                  /\ result[p].text.blocks[j].score = 5
                  /\ result[p].text.blocks[j].factors
                        = <<"same investor type", "same investment stage">>


(***************************************************************************)
(* Limit semantics.                                                        *)
(***************************************************************************)
\* A limit that limits: a positive number.  None and 0 limit nothing.
Limiting(limit) == limit.k = "int" /\ limit.n > 0

\* The first L entries of a list under a limiting limit L, else the list.
UpTo(list, limit) ==
    IF Limiting(limit) THEN [i \in 1..Min(limit.n, Len(list)) |-> list[i]] ELSE list

\* Slot p's invocation of op has ended and its k-th fetch sent a query and got
\* records.
Answered(p, op, k) ==
    /\ Done(p, op)
    /\ Len(fetched[p]) >= k
    /\ fetched[p][k].kind = "data"

\* The query carries the limit L, or none when the limit does not limit.
Carries(f, limit) ==
    f.sent[1].limit = (IF Limiting(limit) THEN <<limit.n>> ELSE <<>>)

\* The query asks for every row of the table and the fetch returned them all.
WholeTable(f) ==
    /\ f.sent[1].limit = <<>>
    /\ DOMAIN f.sent[1].filters = {}
    /\ Len(f.data) = Len(table)

\* The output of slot p shows the first entries of `post`, up to the display
\* cap, and states the rest as "N more".
Shows(p, post) ==
    LET text == result[p].text
    IN  /\ Len(text.blocks) = Min(Len(post), ShowCap)
        /\ text.more = (IF Len(post) > ShowCap THEN <<Len(post) - ShowCap>> ELSE <<>>)

ZeroLimitsNothing ==
    \E p \in Procs :
        /\ Answered(p, "find_investors_by_cheque_size", 1)
        /\ call[p].limit = Num(0)
        /\ result[p].kind = "return" /\ result[p].text.t = "records"
        /\ Len(result[p].text.blocks) > 1
        /\ result[p].text.header.count
              = <<Len(ChequeFiltered(call[p], fetched[p][1].data))>>

\* A similarity search with limit 0 shows the whole ranked list, more than
\* the display cap.
ZeroLimitsNoRanking ==
    \E p \in Procs :
        /\ Answered(p, "find_similar_investors", 2)
        /\ call[p].limit = Num(0)
        /\ result[p].kind = "return" /\ result[p].text.t = "records"
        /\ result[p].text.more # <<>>

=============================================================================
